---- MODULE Spec2Model ----
(***************************************************************************)
(* State-machine model of the Rock-Paper-Scissors program                  *)
(* src/backend/solana-program/src/lib.rs.                                  *)
(*                                                                         *)
(* The persisted Game record is the variable `game`.  Every instruction    *)
(* handler process_* is an operator from (record, caller, arguments,       *)
(* accounts supplied, outcome of the value transfers, clock) to a result   *)
(* record                                                                  *)
(*     [err, game, received, paid_out]                                     *)
(* where `game` is the account data as the handler leaves it when it       *)
(* returns (a handler that serializes the record and fails afterwards      *)
(* leaves the written record), `received` is the value transferred into    *)
(* the game account and `paid_out` the value transferred out of it (the    *)
(* token-mode transfers are placeholders and the bots pay nothing: both    *)
(* move no value).  Callers sign their instructions (the is_signer checks  *)
(* pass).                                                                  *)
(***************************************************************************)
EXTENDS Integers, Sequences, FiniteSets, TLC

VARIABLES
    game,           \* the Game record (struct Game)
    now,            \* Clock::get()?.unix_timestamp
    contributions,  \* entry fees transferred into the game account so far
    paid_out,       \* value sent out of the game account so far
    claimed,        \* players whose ClaimWinnings succeeded since the last new game
    claims,         \* successful ClaimWinnings instructions since the last new game
    rejoins,        \* successful RejoinGame instructions so far
    restarts,       \* successful StartNewGameRound and AutoPlayNextRound instructions so far
    tourney,        \* the TournamentState record, NoTournament before CreateTournament
    tourney_paid,   \* entry fees transferred into the tournament account so far
    losers          \* players below the maximum score when the game became Finished

vars == <<game, now, contributions, paid_out, claimed, claims, rejoins, restarts,
          tourney, tourney_paid, losers>>

(***************************************************************************)
(* Bounds of the model.                                                    *)
(***************************************************************************)
MaxTime == 1
MaxRejoins == 1
MaxClaims == 2
MaxPayoutClaims == 4
MaxRestarts == 1
MaxAutoRounds == 2
MaxRedrawTime == 2
MaxBots == 1
MaxRounds == 3
LiveTimeout == 2
U64_MAX == 1000000000

(***************************************************************************)
(* Program constants.                                                      *)
(***************************************************************************)
FEE_PERCENTAGE == 10
FEE_DENOMINATOR == 1000
U8_MAX == 255
FEE_COLLECTOR == "collector"

(***************************************************************************)
(* Identities.  A bot's key is the hash of "bot_<game>_<roster size>_<i>", *)
(* modelled as one distinct key per (roster size, i).                      *)
(***************************************************************************)
Host == "host"
Users == {"host", "p1", "p2", "p3", "outsider", FEE_COLLECTOR}

BotTable ==
    << <<"bot_1_0", "bot_1_1", "bot_1_2">>,
       <<"bot_2_0", "bot_2_1", "bot_2_2">>,
       <<"bot_3_0", "bot_3_1", "bot_3_2">> >>

\* a bot key derived from the index alone, without the roster size
BotPubkey_WithoutRosterSize(len, i) == BotTable[1][i + 1]

BotPubkey(len, i) == BotTable[len][i + 1]

(***************************************************************************)
(* Choices, commitments and salts.  HMAC-SHA512 keyed by the salt over the *)
(* one-byte choice is modelled as the collision-free pair <<salt, byte>>;  *)
(* the all-zero 64-byte value is <<0, 0>> and the all-zero salt is 0.      *)
(***************************************************************************)
RPS == {"Rock", "Paper", "Scissors"}
Choices == {"None"} \cup RPS

ZERO64 == <<0, 0>>
ZERO32 == 0

ChoiceByte(choice) ==
    CASE choice = "Rock" -> 1
      [] choice = "Paper" -> 2
      [] choice = "Scissors" -> 3

HmacSha512(salt, byte) == <<salt, byte>>

(***************************************************************************)
(* 64-bit and 8-bit unsigned arithmetic.                                   *)
(***************************************************************************)
SaturatingMul(a, b) == IF b > 0 /\ a > U64_MAX \div b THEN U64_MAX ELSE a * b

WrappingAdd(a, b) == (a + b) % (U64_MAX + 1)

SaturatingSub(a, b) == IF a >= b THEN a - b ELSE 0

AddU8(a, b) == (a + b) % (U8_MAX + 1)

Min(a, b) == IF a <= b THEN a ELSE b

calculate_fee(amount) ==
    SaturatingMul(amount, FEE_PERCENTAGE) \div FEE_DENOMINATOR

fee_amount_of(g) == IF g.entry_fee > 0 THEN calculate_fee(g.entry_fee) ELSE 0

pot_amount_of(g) == IF g.entry_fee > 0 THEN g.entry_fee - fee_amount_of(g) ELSE 0

(***************************************************************************)
(* Roster helpers.                                                         *)
(***************************************************************************)
NewPlayer(pubkey) ==
    [pubkey |-> pubkey, choice |-> "None", committed_choice |-> ZERO64,
     salt |-> ZERO32, revealed |-> FALSE, score |-> 0]

HasPlayer(g, pubkey) == \E i \in 1..Len(g.players) : g.players[i].pubkey = pubkey

\* index of the first roster entry of `pubkey`, 0 when there is none
IndexOf(g, pubkey) ==
    IF HasPlayer(g, pubkey)
    THEN CHOOSE i \in 1..Len(g.players) :
            /\ g.players[i].pubkey = pubkey
            /\ \A j \in 1..(i - 1) : g.players[j].pubkey # pubkey
    ELSE 0

ClearRound(p) ==
    [p EXCEPT !.choice = "None", !.committed_choice = ZERO64,
              !.salt = ZERO32, !.revealed = FALSE]

ResetPlayer(p) == [ClearRound(p) EXCEPT !.score = 0]

RECURSIVE MaxScoreFrom(_, _)
MaxScoreFrom(players, i) ==
    IF i > Len(players) THEN 0
    ELSE LET rest == MaxScoreFrom(players, i + 1)
         IN  IF players[i].score > rest THEN players[i].score ELSE rest

MaxScore(g) == MaxScoreFrom(g.players, 1)

Winners(g) == {i \in 1..Len(g.players) : g.players[i].score = MaxScore(g)}

\* the players of g whose score is strictly below the maximum score
LosersAt(g) ==
    {g.players[i].pubkey : i \in {k \in 1..Len(g.players) : g.players[k].score < MaxScore(g)}}

\* the players below the maximum score when the game became Finished, after
\* an operation that takes g to g2: taken when g2 has just become Finished,
\* kept while the game stays Finished, empty otherwise
LosersAfter(g, g2) ==
    IF g2.state # "Finished" THEN {}
    ELSE IF g.state # "Finished" THEN LosersAt(g2)
    ELSE losers

(***************************************************************************)
(* Results of a handler.                                                   *)
(***************************************************************************)
Result(e, g, r, o) == [err |-> e, game |-> g, received |-> r, paid_out |-> o]

\* no tournament account has been created
NoTournament == [max_players |-> 0]

Fail(e, g) == Result(e, g, 0, 0)

Done(g, r, o) == Result("Ok", g, r, o)

Stamp(g, t) == [g EXCEPT !.last_action_timestamp = t]

(***************************************************************************)
(* Round resolver: process_round_results.                                  *)
(***************************************************************************)
\* the (i, j) visited by `for i in 0..n { for j in (i+1)..n`, in order (1-based)
RECURSIVE LoopPairsFrom(_, _, _)
LoopPairsFrom(i, j, n) ==
    IF i > n THEN <<>>
    ELSE IF j > n THEN LoopPairsFrom(i + 1, i + 2, n)
    ELSE <<<<i, j>>>> \o LoopPairsFrom(i, j + 1, n)

\* LoopPairs that visits every pair in both orders
LoopPairs_AllOrdered(n) ==
    LET all == LoopPairsFrom(1, 2, n)
    IN  all \o [k \in 1..Len(all) |-> <<all[k][2], all[k][1]>>]

LoopPairs(n) == LoopPairsFrom(1, 2, n)

\* PairOutcome with (Paper, Scissors) moved to the first arm of the match
PairOutcome_SwappedArm(choice_i, choice_j) ==
    IF \/ (choice_i = "Rock" /\ choice_j = "Scissors")
       \/ (choice_i = "Paper" /\ choice_j = "Rock")
       \/ (choice_i = "Paper" /\ choice_j = "Scissors")
    THEN "i"
    ELSE IF \/ (choice_i = "Scissors" /\ choice_j = "Rock")
            \/ (choice_i = "Rock" /\ choice_j = "Paper")
            \/ (choice_i = "Scissors" /\ choice_j = "Paper")
    THEN "j"
    ELSE "none"

\* the match on (choice_i, choice_j): who gets the point
PairOutcome(choice_i, choice_j) ==
    IF \/ (choice_i = "Rock" /\ choice_j = "Scissors")
       \/ (choice_i = "Paper" /\ choice_j = "Rock")
       \/ (choice_i = "Scissors" /\ choice_j = "Paper")
    THEN "i"
    ELSE IF \/ (choice_i = "Scissors" /\ choice_j = "Rock")
            \/ (choice_i = "Rock" /\ choice_j = "Paper")
            \/ (choice_i = "Paper" /\ choice_j = "Scissors")
    THEN "j"
    ELSE "none"

ScorePair(players, pair) ==
    LET i == pair[1]
        j == pair[2]
        outcome == PairOutcome(players[i].choice, players[j].choice)
    IN  IF outcome = "i" THEN [players EXCEPT ![i].score = AddU8(@, 1)]
        ELSE IF outcome = "j" THEN [players EXCEPT ![j].score = AddU8(@, 1)]
        ELSE players

RECURSIVE ScorePairs(_, _, _)
ScorePairs(players, pairs, k) ==
    IF k > Len(pairs) THEN players
    ELSE ScorePairs(ScorePair(players, pairs[k]), pairs, k + 1)

process_round_results(g) ==
    [g EXCEPT !.players = ScorePairs(@, LoopPairs(Len(@)), 1)]

\* CloseRound that also clears the scores when it opens the next round
CloseRound_ClearingScores(g) ==
    LET r == process_round_results(g)
    IN  IF r.current_round >= r.total_rounds
        THEN [r EXCEPT !.state = "Finished"]
        ELSE [r EXCEPT !.current_round = AddU8(@, 1),
                       !.state = "CommitPhase",
                       !.players = [k \in 1..Len(@) |-> ResetPlayer(@[k])]]

\* CloseRound that plays one round more than total_rounds
CloseRound_OneRoundMore(g) ==
    LET r == process_round_results(g)
    IN  IF r.current_round > r.total_rounds
        THEN [r EXCEPT !.state = "Finished"]
        ELSE [r EXCEPT !.current_round = AddU8(@, 1),
                       !.state = "CommitPhase",
                       !.players = [k \in 1..Len(@) |-> ClearRound(@[k])]]

\* resolve the round, then finish the game or open the next round
CloseRound(g) ==
    LET r == process_round_results(g)
    IN  IF r.current_round >= r.total_rounds
        THEN [r EXCEPT !.state = "Finished"]
        ELSE [r EXCEPT !.current_round = AddU8(@, 1),
                       !.state = "CommitPhase",
                       !.players = [k \in 1..Len(@) |-> ClearRound(@[k])]]

(***************************************************************************)
(* process_initialize_game: the record a successful InitializeGame writes. *)
(***************************************************************************)
RandomPlayerCount(min_players, max_players, t) ==
    IF min_players = max_players THEN min_players
    ELSE IF t % 2 = 0 THEN 3 ELSE 4

process_initialize_game(initializer, min_players, max_players, total_rounds, entry_fee, timeout_seconds, losers_can_rejoin, game_mode, currency_mode, max_auto_rounds, t) ==
    LET fee_amount == IF entry_fee > 0 THEN calculate_fee(entry_fee) ELSE 0
        initial_pot == IF entry_fee > 0 THEN entry_fee - fee_amount ELSE 0
    IN  [host |-> initializer,
         players |-> <<NewPlayer(initializer)>>,
         min_players |-> min_players,
         max_players |-> max_players,
         state |-> "WaitingForPlayers",
         current_round |-> 1,
         total_rounds |-> total_rounds,
         entry_fee |-> entry_fee,
         game_pot |-> initial_pot,
         required_timeout |-> timeout_seconds,
         last_action_timestamp |-> t,
         player_count |-> RandomPlayerCount(min_players, max_players, t),
         losers_can_rejoin |-> losers_can_rejoin,
         game_mode |-> game_mode,
         max_auto_rounds |-> max_auto_rounds,
         current_auto_round |-> 0,
         currency_mode |-> currency_mode,
         fee_collected |-> fee_amount]

(***************************************************************************)
(* Entry-fee payment of JoinGame and RejoinGame: the deposit of the entry  *)
(* fee and, when a fee-collector account is passed, the forwarding of the  *)
(* fee to it.  `written` is the record the handler leaves on a failure,    *)
(* `g` the one it leaves on success.                                       *)
(***************************************************************************)
PayEntryFee(written, g, acc, ext) ==
    LET fee_amount == fee_amount_of(g)
    IN  IF g.currency_mode = "SOL"
        THEN IF ~ext.deposit THEN Fail("TransferFailed", written)
             ELSE IF acc.fee_collector /\ fee_amount > 0
                  THEN IF ~ext.forward
                       THEN Result("TransferFailed", written, g.entry_fee, 0)
                       ELSE Done(g, g.entry_fee, fee_amount)
                  ELSE Done(g, g.entry_fee, 0)
        \* the token transfer is a placeholder: nothing is received
        ELSE IF ~acc.token THEN Fail("InvalidParameter", written)
             ELSE Done(g, 0, 0)

(***************************************************************************)
(* process_join_game                                                       *)
(***************************************************************************)
\* process_join_game without the search for an existing entry of the caller
join_game_twice(g, player, acc, ext, t) ==
    LET g1 == [g EXCEPT !.players = Append(@, NewPlayer(player)),
                        !.game_pot = WrappingAdd(@, pot_amount_of(g)),
                        !.fee_collected = WrappingAdd(@, fee_amount_of(g))]
        g2 == IF Len(g1.players) >= g1.player_count
              THEN [g1 EXCEPT !.state = "CommitPhase"]
              ELSE g1
        g3 == Stamp(g2, t)
    IN  IF g.state # "WaitingForPlayers" THEN Fail("InvalidGameState", g)
        ELSE IF Len(g.players) >= g.player_count THEN Fail("GameFull", g)
        ELSE IF g.entry_fee > 0 THEN PayEntryFee(g3, g3, acc, ext)
        ELSE Done(g3, 0, 0)

process_join_game(g, player, acc, ext, t) ==
    LET g1 == [g EXCEPT !.players = Append(@, NewPlayer(player)),
                        !.game_pot = WrappingAdd(@, pot_amount_of(g)),
                        !.fee_collected = WrappingAdd(@, fee_amount_of(g))]
        g2 == IF Len(g1.players) >= g1.player_count
              THEN [g1 EXCEPT !.state = "CommitPhase"]
              ELSE g1
        g3 == Stamp(g2, t)
    IN  IF g.state # "WaitingForPlayers" THEN Fail("InvalidGameState", g)
        ELSE IF HasPlayer(g, player) THEN Fail("PlayerAlreadyJoined", g)
        ELSE IF Len(g.players) >= g.player_count THEN Fail("GameFull", g)
        \* the record is serialized (line 808) before the payment is made
        ELSE IF g.entry_fee > 0 THEN PayEntryFee(g3, g3, acc, ext)
        ELSE Done(g3, 0, 0)

(***************************************************************************)
(* process_commit_choice                                                   *)
(***************************************************************************)
AllCommitted(g) ==
    \A i \in 1..Len(g.players) : g.players[i].committed_choice # ZERO64

\* process_commit_choice that also accepts a commitment during RevealPhase
commit_choice_while_revealing(g, player, committed_choice, salt, t) ==
    LET idx == IndexOf(g, player)
        g1 == [g EXCEPT !.players[idx].committed_choice = committed_choice,
                        !.players[idx].salt = salt]
        g2 == IF AllCommitted(g1) THEN [g1 EXCEPT !.state = "RevealPhase"] ELSE g1
    IN  IF g.state \notin {"CommitPhase", "RevealPhase"} THEN Fail("InvalidGameState", g)
        ELSE IF idx = 0 THEN Fail("PlayerNotFound", g)
        ELSE Done(Stamp(g2, t), 0, 0)

\* process_commit_choice without the move to RevealPhase
commit_choice_without_close(g, player, committed_choice, salt, t) ==
    LET idx == IndexOf(g, player)
        g1 == [g EXCEPT !.players[idx].committed_choice = committed_choice,
                        !.players[idx].salt = salt]
    IN  IF g.state # "CommitPhase" THEN Fail("InvalidGameState", g)
        ELSE IF idx = 0 THEN Fail("PlayerNotFound", g)
        ELSE Done(Stamp(g1, t), 0, 0)

\* process_commit_choice that keeps the commitment a player already holds
commit_choice_keeping_first(g, player, committed_choice, salt, t) ==
    LET idx == IndexOf(g, player)
        g1 == IF idx # 0 /\ g.players[idx].committed_choice # ZERO64
              THEN g
              ELSE [g EXCEPT !.players[idx].committed_choice = committed_choice,
                             !.players[idx].salt = salt]
        g2 == IF AllCommitted(g1) THEN [g1 EXCEPT !.state = "RevealPhase"] ELSE g1
    IN  IF g.state # "CommitPhase" THEN Fail("InvalidGameState", g)
        ELSE IF idx = 0 THEN Fail("PlayerNotFound", g)
        ELSE Done(Stamp(g2, t), 0, 0)

process_commit_choice(g, player, committed_choice, salt, t) ==
    LET idx == IndexOf(g, player)
        g1 == [g EXCEPT !.players[idx].committed_choice = committed_choice,
                        !.players[idx].salt = salt]
        g2 == IF AllCommitted(g1) THEN [g1 EXCEPT !.state = "RevealPhase"] ELSE g1
    IN  IF g.state # "CommitPhase" THEN Fail("InvalidGameState", g)
        ELSE IF idx = 0 THEN Fail("PlayerNotFound", g)
        ELSE Done(Stamp(g2, t), 0, 0)

(***************************************************************************)
(* process_reveal_choice                                                   *)
(***************************************************************************)
AllRevealed(g) == \A i \in 1..Len(g.players) : g.players[i].revealed

\* process_reveal_choice without the comparison of the recomputed hash with
\* the stored commitment
reveal_choice_unverified(g, player, choice, t) ==
    LET idx == IndexOf(g, player)
        g1 == [g EXCEPT !.players[idx].choice = choice,
                        !.players[idx].revealed = TRUE]
        g2 == IF AllRevealed(g1) THEN CloseRound(g1) ELSE g1
    IN  IF g.state # "RevealPhase" THEN Fail("InvalidGameState", g)
        ELSE IF idx = 0 THEN Fail("PlayerNotFound", g)
        ELSE IF choice = "None" THEN Fail("InvalidChoice", g)
        ELSE Done(Stamp(g2, t), 0, 0)

\* process_reveal_choice with the None arm of the byte conversion yielding 0
\* instead of InvalidChoice
reveal_choice_allowing_none(g, player, choice, t) ==
    LET idx == IndexOf(g, player)
        choice_byte == IF choice = "None" THEN 0 ELSE ChoiceByte(choice)
        g1 == [g EXCEPT !.players[idx].choice = choice,
                        !.players[idx].revealed = TRUE]
        g2 == IF AllRevealed(g1) THEN CloseRound(g1) ELSE g1
    IN  IF g.state # "RevealPhase" THEN Fail("InvalidGameState", g)
        ELSE IF idx = 0 THEN Fail("PlayerNotFound", g)
        ELSE IF HmacSha512(g.players[idx].salt, choice_byte)
                    # g.players[idx].committed_choice
             THEN Fail("InvalidHash", g)
        ELSE Done(Stamp(g2, t), 0, 0)

process_reveal_choice(g, player, choice, t) ==
    LET idx == IndexOf(g, player)
        g1 == [g EXCEPT !.players[idx].choice = choice,
                        !.players[idx].revealed = TRUE]
        g2 == IF AllRevealed(g1) THEN CloseRound(g1) ELSE g1
    IN  IF g.state # "RevealPhase" THEN Fail("InvalidGameState", g)
        ELSE IF idx = 0 THEN Fail("PlayerNotFound", g)
        ELSE IF choice = "None" THEN Fail("InvalidChoice", g)
        ELSE IF HmacSha512(g.players[idx].salt, ChoiceByte(choice))
                    # g.players[idx].committed_choice
             THEN Fail("InvalidHash", g)
        ELSE Done(Stamp(g2, t), 0, 0)

(***************************************************************************)
(* process_resolve_timeout                                                 *)
(***************************************************************************)
CommittedPlayers(g) ==
    SelectSeq(g.players, LAMBDA p : p.committed_choice # ZERO64)

DefaultUnrevealed(g) ==
    [g EXCEPT !.players =
        [k \in 1..Len(@) |->
            IF @[k].revealed THEN @[k]
            ELSE [@[k] EXCEPT !.choice = "None", !.revealed = TRUE]]]

\* process_resolve_timeout without the check of the elapsed time
resolve_timeout_ungated(g, t) ==
    LET committed_players == CommittedPlayers(g)
    IN  IF g.state = "WaitingForPlayers"
        THEN IF Len(g.players) <= 1
             THEN Done(Stamp([g EXCEPT !.state = "Finished"], t), 0, 0)
             ELSE IF Len(g.players) >= g.min_players
             THEN Done(Stamp([g EXCEPT !.state = "CommitPhase"], t), 0, 0)
             ELSE Done(Stamp([g EXCEPT !.state = "Finished"], t), 0, 0)
        ELSE IF g.state = "CommitPhase"
        THEN IF Len(committed_players) >= g.min_players
             THEN Done(Stamp([g EXCEPT !.players = committed_players,
                                       !.state = "RevealPhase"], t), 0, 0)
             ELSE Done(Stamp([g EXCEPT !.state = "Finished"], t), 0, 0)
        ELSE IF g.state = "RevealPhase"
        THEN Done(Stamp(CloseRound(DefaultUnrevealed(g)), t), 0, 0)
        ELSE Fail("InvalidGameState", g)

\* process_resolve_timeout that cancels every game still waiting for players
resolve_timeout_cancelling_lobby(g, t) ==
    LET time_elapsed == SaturatingSub(t, g.last_action_timestamp)
        committed_players == CommittedPlayers(g)
    IN  IF time_elapsed < g.required_timeout THEN Fail("TimeoutNotReached", g)
        ELSE IF g.state = "WaitingForPlayers"
        THEN Done(Stamp([g EXCEPT !.state = "Finished"], t), 0, 0)
        ELSE IF g.state = "CommitPhase"
        THEN IF Len(committed_players) >= g.min_players
             THEN Done(Stamp([g EXCEPT !.players = committed_players,
                                       !.state = "RevealPhase"], t), 0, 0)
             ELSE Done(Stamp([g EXCEPT !.state = "Finished"], t), 0, 0)
        ELSE IF g.state = "RevealPhase"
        THEN Done(Stamp(CloseRound(DefaultUnrevealed(g)), t), 0, 0)
        ELSE Fail("InvalidGameState", g)

\* process_resolve_timeout whose RevealPhase arm closes the round without
\* resolving it
resolve_timeout_without_scoring(g, t) ==
    LET time_elapsed == SaturatingSub(t, g.last_action_timestamp)
        committed_players == CommittedPlayers(g)
        d == DefaultUnrevealed(g)
        closed == IF d.current_round >= d.total_rounds
                  THEN [d EXCEPT !.state = "Finished"]
                  ELSE [d EXCEPT !.current_round = AddU8(@, 1),
                                 !.state = "CommitPhase",
                                 !.players = [k \in 1..Len(@) |-> ClearRound(@[k])]]
    IN  IF time_elapsed < g.required_timeout THEN Fail("TimeoutNotReached", g)
        ELSE IF g.state = "WaitingForPlayers"
        THEN IF Len(g.players) <= 1
             THEN Done(Stamp([g EXCEPT !.state = "Finished"], t), 0, 0)
             ELSE IF Len(g.players) >= g.min_players
             THEN Done(Stamp([g EXCEPT !.state = "CommitPhase"], t), 0, 0)
             ELSE Done(Stamp([g EXCEPT !.state = "Finished"], t), 0, 0)
        ELSE IF g.state = "CommitPhase"
        THEN IF Len(committed_players) >= g.min_players
             THEN Done(Stamp([g EXCEPT !.players = committed_players,
                                       !.state = "RevealPhase"], t), 0, 0)
             ELSE Done(Stamp([g EXCEPT !.state = "Finished"], t), 0, 0)
        ELSE IF g.state = "RevealPhase"
        THEN Done(Stamp(closed, t), 0, 0)
        ELSE Fail("InvalidGameState", g)

process_resolve_timeout(g, t) ==
    LET time_elapsed == SaturatingSub(t, g.last_action_timestamp)
        committed_players == CommittedPlayers(g)
    IN  IF time_elapsed < g.required_timeout THEN Fail("TimeoutNotReached", g)
        ELSE IF g.state = "WaitingForPlayers"
        THEN IF Len(g.players) <= 1
             THEN Done(Stamp([g EXCEPT !.state = "Finished"], t), 0, 0)
             ELSE IF Len(g.players) >= g.min_players
             THEN Done(Stamp([g EXCEPT !.state = "CommitPhase"], t), 0, 0)
             ELSE Done(Stamp([g EXCEPT !.state = "Finished"], t), 0, 0)
        ELSE IF g.state = "CommitPhase"
        THEN IF Len(committed_players) >= g.min_players
             THEN Done(Stamp([g EXCEPT !.players = committed_players,
                                       !.state = "RevealPhase"], t), 0, 0)
             ELSE Done(Stamp([g EXCEPT !.state = "Finished"], t), 0, 0)
        ELSE IF g.state = "RevealPhase"
        THEN Done(Stamp(CloseRound(DefaultUnrevealed(g)), t), 0, 0)
        ELSE Fail("InvalidGameState", g)

(***************************************************************************)
(* process_claim_winnings                                                  *)
(***************************************************************************)
process_claim_winnings(g, winner, acc, ext) ==
    LET winners == Winners(g)
        caller_is_winner == \E i \in winners : g.players[i].pubkey = winner
        winner_share == g.game_pot \div Cardinality(winners)
        idx == IndexOf(g, winner)
        g1 == [g EXCEPT !.game_pot = @ - winner_share,
                        !.players[idx].score = 0]
    IN  IF g.state # "Finished" THEN Fail("InvalidGameState", g)
        ELSE IF ~caller_is_winner THEN Fail("NotWinner", g)
        ELSE IF winner_share = 0 THEN Fail("InsufficientFunds", g)
        ELSE IF g.currency_mode = "SOL" /\ ~ext.payout THEN Fail("TransferFailed", g)
        ELSE IF g.currency_mode = "RPSToken" /\ ~acc.token
             THEN Fail("InvalidParameter", g)
        \* the token transfer is a placeholder: only a SOL share is paid out
        ELSE Done(g1, 0, IF g.currency_mode = "SOL" THEN winner_share ELSE 0)

(***************************************************************************)
(* process_rejoin_game                                                     *)
(***************************************************************************)
\* process_rejoin_game without the comparison of the caller's score
rejoin_game_by_winner(g, player, acc, ext, t) ==
    LET idx == IndexOf(g, player)
        was_player == idx # 0
        paid == [g EXCEPT !.game_pot = WrappingAdd(@, pot_amount_of(g)),
                          !.fee_collected = WrappingAdd(@, fee_amount_of(g))]
        reset(x) == Stamp([x EXCEPT !.players[idx] = ClearRound(@)], t)
        pay == PayEntryFee(g, reset(paid), acc, ext)
    IN  IF g.state # "Finished" \/ ~g.losers_can_rejoin
        THEN Fail("InvalidGameState", g)
        ELSE IF ~was_player THEN Fail("InvalidPlayerState", g)
        ELSE IF g.entry_fee > 0 THEN pay
        ELSE Done(reset(g), 0, 0)

process_rejoin_game(g, player, acc, ext, t) ==
    LET idx == IndexOf(g, player)
        was_player == idx # 0
        was_loser == was_player /\ g.players[idx].score < MaxScore(g)
        paid == [g EXCEPT !.game_pot = WrappingAdd(@, pot_amount_of(g)),
                          !.fee_collected = WrappingAdd(@, fee_amount_of(g))]
        reset(x) == Stamp([x EXCEPT !.players[idx] = ClearRound(@)], t)
        pay == PayEntryFee(g, reset(paid), acc, ext)
    IN  IF g.state # "Finished" \/ ~g.losers_can_rejoin
        THEN Fail("InvalidGameState", g)
        ELSE IF ~was_player \/ ~was_loser THEN Fail("InvalidPlayerState", g)
        \* the payment is made before the record is touched
        ELSE IF g.entry_fee > 0 THEN pay
        ELSE Done(reset(g), 0, 0)

(***************************************************************************)
(* process_start_new_game_round and process_auto_play_next_round           *)
(***************************************************************************)
IsParticipant(g, initiator) == g.host = initiator \/ HasPlayer(g, initiator)

\* the reset of a new game that keeps the scores of the finished one
NewGame_KeepingScores(g, t) ==
    Stamp([g EXCEPT !.current_round = 1,
                    !.state = "CommitPhase",
                    !.player_count =
                        IF g.min_players # g.max_players
                        THEN (IF t % 2 = 0 THEN 3 ELSE 4)
                        ELSE @,
                    !.players = [k \in 1..Len(@) |-> ClearRound(@[k])]], t)

NewGame(g, t) ==
    Stamp([g EXCEPT !.current_round = 1,
                    !.state = "CommitPhase",
                    !.player_count =
                        IF g.min_players # g.max_players
                        THEN (IF t % 2 = 0 THEN 3 ELSE 4)
                        ELSE @,
                    !.players = [k \in 1..Len(@) |-> ResetPlayer(@[k])]], t)

\* process_start_new_game_round without its check of the game state
start_new_game_round_any_phase(g, initiator, t) ==
    IF ~IsParticipant(g, initiator) THEN Fail("NotAuthorized", g)
    ELSE Done(NewGame(g, t), 0, 0)

process_start_new_game_round(g, initiator, t) ==
    IF g.state # "Finished" THEN Fail("InvalidGameState", g)
    ELSE IF ~IsParticipant(g, initiator) THEN Fail("NotAuthorized", g)
    ELSE Done(NewGame(g, t), 0, 0)

\* process_auto_play_next_round without its check of the auto-round limit
auto_play_next_round_unbudgeted(g, initiator, t) ==
    IF g.game_mode # "Automated" THEN Fail("InvalidGameState", g)
    ELSE IF g.state # "Finished" THEN Fail("InvalidGameState", g)
    ELSE IF ~IsParticipant(g, initiator) THEN Fail("NotAuthorized", g)
    ELSE Done(NewGame([g EXCEPT !.current_auto_round = WrappingAdd(@, 1)], t), 0, 0)

process_auto_play_next_round(g, initiator, t) ==
    IF g.game_mode # "Automated" THEN Fail("InvalidGameState", g)
    ELSE IF g.state # "Finished" THEN Fail("InvalidGameState", g)
    ELSE IF g.current_auto_round >= g.max_auto_rounds THEN Fail("InvalidGameState", g)
    ELSE IF ~IsParticipant(g, initiator) THEN Fail("NotAuthorized", g)
    ELSE Done(NewGame([g EXCEPT !.current_auto_round = WrappingAdd(@, 1)], t), 0, 0)

(***************************************************************************)
(* process_add_bot_players                                                 *)
(***************************************************************************)
\* iterations i, i+1, ..., bot_count-1 of the loop that pushes the bots
RECURSIVE AddBots(_, _, _)
AddBots(g, i, bot_count) ==
    IF i >= bot_count THEN g
    ELSE AddBots([g EXCEPT
                    !.players = Append(@, NewPlayer(BotPubkey(Len(@), i))),
                    !.game_pot = WrappingAdd(@, pot_amount_of(g)),
                    !.fee_collected = WrappingAdd(@, fee_amount_of(g))],
                 i + 1, bot_count)

\* process_add_bot_players without the start of the game when the roster
\* reaches the required player count
add_bot_players_without_start(g, initiator, count, t) ==
    LET available_slots == g.player_count - Len(g.players)
        bot_count == Min(count, available_slots)
        g1 == AddBots(g, 0, bot_count)
    IN  IF g.state # "WaitingForPlayers" THEN Fail("InvalidGameState", g)
        ELSE IF bot_count = 0 THEN Fail("GameFull", g)
        ELSE Done(Stamp(g1, t), 0, 0)

\* process_add_bot_players that adds as many bots as asked for
add_bot_players_uncapped(g, initiator, count, t) ==
    LET bot_count == count
        g1 == AddBots(g, 0, bot_count)
        g2 == IF Len(g1.players) >= g1.player_count
              THEN [g1 EXCEPT !.state = "CommitPhase"]
              ELSE g1
    IN  IF g.state # "WaitingForPlayers" THEN Fail("InvalidGameState", g)
        ELSE IF bot_count = 0 THEN Fail("GameFull", g)
        ELSE Done(Stamp(g2, t), 0, 0)

process_add_bot_players(g, initiator, count, t) ==
    LET available_slots == g.player_count - Len(g.players)
        bot_count == Min(count, available_slots)
        g1 == AddBots(g, 0, bot_count)
        g2 == IF Len(g1.players) >= g1.player_count
              THEN [g1 EXCEPT !.state = "CommitPhase"]
              ELSE g1
    IN  IF g.state # "WaitingForPlayers" THEN Fail("InvalidGameState", g)
        ELSE IF bot_count = 0 THEN Fail("GameFull", g)
        \* the bots' entry fees are credited to the record, but nothing is received
        ELSE Done(Stamp(g2, t), 0, 0)

(***************************************************************************)
(* process_collect_fees                                                    *)
(***************************************************************************)
\* process_collect_fees without the authorization check
collect_fees_by_anyone(g, fee_collector, acc, ext) ==
    LET fee_amount == g.fee_collected
    IN  IF g.fee_collected = 0 THEN Fail("InsufficientFunds", g)
        ELSE IF g.currency_mode = "SOL" /\ ~ext.payout THEN Fail("TransferFailed", g)
        ELSE IF g.currency_mode = "RPSToken" /\ ~acc.token
             THEN Fail("InvalidParameter", g)
        ELSE Done([g EXCEPT !.fee_collected = 0], 0,
                  IF g.currency_mode = "SOL" THEN fee_amount ELSE 0)

process_collect_fees(g, fee_collector, acc, ext) ==
    LET fee_amount == g.fee_collected
    IN  IF g.fee_collected = 0 THEN Fail("InsufficientFunds", g)
        ELSE IF g.state # "Finished" /\ fee_collector # FEE_COLLECTOR
             THEN Fail("NotAuthorized", g)
        ELSE IF g.currency_mode = "SOL" /\ ~ext.payout THEN Fail("TransferFailed", g)
        ELSE IF g.currency_mode = "RPSToken" /\ ~acc.token
             THEN Fail("InvalidParameter", g)
        ELSE Done([g EXCEPT !.fee_collected = 0], 0,
                  IF g.currency_mode = "SOL" THEN fee_amount ELSE 0)

(***************************************************************************)
(* Inputs of the instructions.                                             *)
(***************************************************************************)
\* the optional accounts a caller passes: a fee-collector account, and after
\* it the token program and token accounts
NoAccounts == [fee_collector |-> FALSE, token |-> FALSE]
FeeAccount == [fee_collector |-> TRUE, token |-> FALSE]
TokenAccounts == [fee_collector |-> TRUE, token |-> TRUE]

\* the outcome of the value transfers a handler invokes
AllOk == [deposit |-> TRUE, forward |-> TRUE, payout |-> TRUE]
DepositFails == [deposit |-> FALSE, forward |-> TRUE, payout |-> TRUE]
ForwardFails == [deposit |-> TRUE, forward |-> FALSE, payout |-> TRUE]
PayoutFails == [deposit |-> TRUE, forward |-> TRUE, payout |-> FALSE]

Salts == {1, 2}

\* (commitment, salt) pairs a client submits: the commitment to each choice
\* under each salt, submitted with that salt; the all-zero commitment; and a
\* commitment made under salt 2 but submitted with salt 1
HonestCommits == {<<HmacSha512(salt, ChoiceByte(c)), salt>> : salt \in Salts, c \in RPS}
OddCommits == {<<ZERO64, 1>>, <<HmacSha512(2, ChoiceByte("Rock")), 1>>}
RockCommit == {<<HmacSha512(1, ChoiceByte("Rock")), 1>>}
PaperCommit == {<<HmacSha512(1, ChoiceByte("Paper")), 1>>}

AllAccounts == {NoAccounts, FeeAccount, TokenAccounts}
AllTransfers == {AllOk, DepositFails, ForwardFails, PayoutFails}
AllCommits == HonestCommits \cup OddCommits

\* P holds of every instruction with every input, applied to record g at
\* time t: P(op, caller, r) for the instruction's name, its signer and its result
ForAllAttempts(g, t, P(_, _, _)) ==
    /\ \A p \in Users, acc \in AllAccounts, ext \in AllTransfers :
            /\ P("JoinGame", p, process_join_game(g, p, acc, ext, t))
            /\ P("RejoinGame", p, process_rejoin_game(g, p, acc, ext, t))
            /\ P("ClaimWinnings", p, process_claim_winnings(g, p, acc, ext))
            /\ P("CollectFees", p, process_collect_fees(g, p, acc, ext))
    /\ \A p \in Users, n \in 0..MaxBots :
            P("AddBotPlayers", p, process_add_bot_players(g, p, n, t))
    /\ \A p \in Users, c \in AllCommits :
            P("CommitChoice", p, process_commit_choice(g, p, c[1], c[2], t))
    /\ \A p \in Users, c \in Choices :
            P("RevealChoice", p, process_reveal_choice(g, p, c, t))
    /\ \A p \in Users :
            /\ P("ResolveTimeout", p, process_resolve_timeout(g, t))
            /\ P("StartNewGameRound", p, process_start_new_game_round(g, p, t))
            /\ P("AutoPlayNextRound", p, process_auto_play_next_round(g, p, t))

(***************************************************************************)
(* Actions: one per instruction.                                           *)
(***************************************************************************)
Apply(r) ==
    /\ game' = r.game
    /\ contributions' = contributions + r.received
    /\ paid_out' = paid_out + r.paid_out
    /\ losers' = LosersAfter(game, r.game)
    /\ UNCHANGED <<tourney, tourney_paid>>

JoinGame(callers, accs, exts) ==
    \E player \in callers, acc \in accs, ext \in exts :
        /\ Apply(process_join_game(game, player, acc, ext, now))
        /\ UNCHANGED <<now, claimed, claims, rejoins, restarts>>

CommitChoice(callers, commits) ==
    \E player \in callers, c \in commits :
        /\ Apply(process_commit_choice(game, player, c[1], c[2], now))
        /\ UNCHANGED <<now, claimed, claims, rejoins, restarts>>

RevealChoice(callers, choices) ==
    \E player \in callers, choice \in choices :
        /\ Apply(process_reveal_choice(game, player, choice, now))
        /\ UNCHANGED <<now, claimed, claims, rejoins, restarts>>

ResolveTimeout ==
    /\ Apply(process_resolve_timeout(game, now))
    /\ UNCHANGED <<now, claimed, claims, rejoins, restarts>>

\* ClaimWinnings, taken while fewer than `cap` claims have been accepted
ClaimWinningsUpTo(callers, accs, exts, cap) ==
    \E winner \in callers, acc \in accs, ext \in exts :
        LET r == process_claim_winnings(game, winner, acc, ext)
        IN  /\ claims < cap
            /\ Apply(r)
            /\ claimed' = IF r.err = "Ok" THEN claimed \cup {winner} ELSE claimed
            /\ claims' = IF r.err = "Ok" THEN claims + 1 ELSE claims
            /\ UNCHANGED <<now, rejoins, restarts>>

ClaimWinnings(callers, accs, exts) == ClaimWinningsUpTo(callers, accs, exts, MaxClaims)

RejoinGame(callers, accs, exts) ==
    \E player \in callers, acc \in accs, ext \in exts :
        LET r == process_rejoin_game(game, player, acc, ext, now)
        IN  /\ rejoins < MaxRejoins
            /\ Apply(r)
            /\ rejoins' = IF r.err = "Ok" THEN rejoins + 1 ELSE rejoins
            /\ UNCHANGED <<now, claimed, claims, restarts>>

StartNewGameRound(callers) ==
    \E initiator \in callers :
        LET r == process_start_new_game_round(game, initiator, now)
        IN  /\ restarts < MaxRestarts
            /\ Apply(r)
            /\ claimed' = IF r.err = "Ok" THEN {} ELSE claimed
            /\ claims' = IF r.err = "Ok" THEN 0 ELSE claims
            /\ restarts' = IF r.err = "Ok" THEN restarts + 1 ELSE restarts
            /\ UNCHANGED <<now, rejoins>>

\* AutoPlayNextRound, taken while fewer than `cap` new games have been started
AutoPlayNextRoundUpTo(callers, cap) ==
    \E initiator \in callers :
        LET r == process_auto_play_next_round(game, initiator, now)
        IN  /\ restarts < cap
            /\ Apply(r)
            /\ claimed' = IF r.err = "Ok" THEN {} ELSE claimed
            /\ claims' = IF r.err = "Ok" THEN 0 ELSE claims
            /\ restarts' = IF r.err = "Ok" THEN restarts + 1 ELSE restarts
            /\ UNCHANGED <<now, rejoins>>

AutoPlayNextRound(callers) == AutoPlayNextRoundUpTo(callers, MaxRestarts)

\* AddBotPlayers with a count drawn from `counts`
AddBotPlayersOf(callers, counts) ==
    \E initiator \in callers, count \in counts :
        /\ Apply(process_add_bot_players(game, initiator, count, now))
        /\ UNCHANGED <<now, claimed, claims, rejoins, restarts>>

AddBotPlayers(callers) == AddBotPlayersOf(callers, 0..MaxBots)

CollectFees(callers, accs, exts) ==
    \E fee_collector \in callers, acc \in accs, ext \in exts :
        /\ Apply(process_collect_fees(game, fee_collector, acc, ext))
        /\ UNCHANGED <<now, claimed, claims, rejoins, restarts>>

\* the host clock advances
\* the clock advances, up to `bound`
TickUpTo(bound) ==
    /\ now < bound
    /\ now' = now + 1
    /\ UNCHANGED <<game, contributions, paid_out, claimed, claims, rejoins, restarts,
                   tourney, tourney_paid, losers>>

Tick == TickUpTo(MaxTime)

(***************************************************************************)
(* Initial states: the record written by a successful InitializeGame.      *)
(***************************************************************************)
InitWith(configs) ==
    \E c \in configs :
        /\ game = process_initialize_game(Host, c.min_players, c.max_players,
                      c.total_rounds, c.entry_fee, c.timeout_seconds,
                      c.losers_can_rejoin, c.game_mode, c.currency_mode,
                      c.max_auto_rounds, c.t)
        /\ now = c.t
        \* in token mode the transfer is a placeholder (lines 685-703)
        /\ contributions = IF c.currency_mode = "SOL" THEN c.entry_fee ELSE 0
        \* with a fee-collector account the fee is forwarded at once (lines 665-682)
        /\ paid_out = IF c.currency_mode = "SOL" /\ c.fee_collector
                      THEN fee_amount_of(game) ELSE 0
        /\ claimed = {}
        /\ claims = 0
        /\ rejoins = 0
        /\ restarts = 0
        /\ tourney = NoTournament
        /\ tourney_paid = 0
        /\ losers = {}

Config(min_players, max_players, total_rounds, entry_fee, timeout_seconds, currency_mode, fee_collector, t) ==
    [min_players |-> min_players, max_players |-> max_players,
     total_rounds |-> total_rounds, entry_fee |-> entry_fee,
     timeout_seconds |-> timeout_seconds, losers_can_rejoin |-> TRUE,
     game_mode |-> "Automated", currency_mode |-> currency_mode,
     max_auto_rounds |-> 1, fee_collector |-> fee_collector, t |-> t]

(***************************************************************************)
(* Spec: three-player games with an entry fee of 100.                      *)
(***************************************************************************)
Players3 == {"host", "p1", "p2"}
Callers == Players3 \cup {"outsider"}

Init ==
    InitWith({Config(3, 3, 1, 100, 1, "SOL", fc, 0) : fc \in BOOLEAN})

Next ==
    \/ JoinGame(Players3, {NoAccounts}, {AllOk})
    \/ AddBotPlayers({"host"})
    \/ CommitChoice(Callers, RockCommit)
    \/ CommitChoice({"host"}, PaperCommit)
    \/ RevealChoice(Callers, Choices)
    \/ ResolveTimeout
    \/ ClaimWinnings(Callers, {NoAccounts}, {AllOk, PayoutFails})
    \/ RejoinGame(Callers, {NoAccounts, FeeAccount}, {AllOk})
    \/ StartNewGameRound(Callers)
    \/ AutoPlayNextRound(Callers)
    \/ CollectFees(Callers \cup {FEE_COLLECTOR}, {NoAccounts}, {AllOk, PayoutFails})
    \/ Tick

Spec == Init /\ [][Next]_vars

(***************************************************************************)
(* Claims checked under Spec.                                              *)
(***************************************************************************)
\* C1 (pot/fee conservation): in every reachable state game_pot +
\* fee_collected equals the entry fees received minus the amounts paid out.
C1_PotFeeConservation ==
    game.game_pot + game.fee_collected = contributions - paid_out

\* C2 (no double payout): within one finished game a ClaimWinnings of a
\* player whose earlier ClaimWinnings succeeded never succeeds again.
C2_NoDoublePayout ==
    \A winner \in claimed, acc \in {NoAccounts}, ext \in {AllOk} :
        process_claim_winnings(game, winner, acc, ext).err # "Ok"

\* the phase an instruction requires
WaitingOps == {"JoinGame", "AddBotPlayers"}
FinishedOps == {"ClaimWinnings", "RejoinGame", "StartNewGameRound", "AutoPlayNextRound"}

WrongPhase(op, caller, g) ==
    \/ op \in WaitingOps /\ g.state # "WaitingForPlayers"
    \/ op = "CommitChoice" /\ g.state # "CommitPhase"
    \/ op = "RevealChoice" /\ g.state # "RevealPhase"
    \/ op \in FinishedOps /\ g.state # "Finished"
    \/ op = "CollectFees" /\ caller # FEE_COLLECTOR /\ g.state # "Finished"
    \/ op = "ResolveTimeout" /\ g.state = "Finished"

FailsInvalidGameState(op, caller, r) ==
    WrongPhase(op, caller, game) => r.err = "InvalidGameState"

\* C7 as stated (phase guard): every instruction invoked outside its required
\* phase fails with InvalidGameState.
C7_PhaseGuardAsStated == ForAllAttempts(game, now, FailsInvalidGameState)

PhaseError(op) ==
    IF op = "CollectFees"
    THEN (IF game.fee_collected = 0 THEN "InsufficientFunds" ELSE "NotAuthorized")
    ELSE IF op = "ResolveTimeout"
            /\ SaturatingSub(now, game.last_action_timestamp) < game.required_timeout
    THEN "TimeoutNotReached"
    ELSE "InvalidGameState"

FailsOutOfPhase(op, caller, r) ==
    WrongPhase(op, caller, game) => r.err = PhaseError(op) /\ r.game = game

\* C7 (phase guard): every instruction invoked outside its required phase
\* fails and leaves the record as it was; the error is InvalidGameState,
\* except that CollectFees by a non-collector fails with InsufficientFunds
\* when no fee is held and NotAuthorized otherwise, and ResolveTimeout on a
\* Finished game fails with TimeoutNotReached while the timeout has not elapsed.
C7_PhaseGuard == ForAllAttempts(game, now, FailsOutOfPhase)

\* a round being revealed while the record holds fees: CommitChoice is turned
\* down with InvalidGameState, a player's CollectFees with NotAuthorized
C7_Witness ==
    /\ game.state = "RevealPhase"
    /\ game.fee_collected > 0
    /\ process_commit_choice(game, "p1", HmacSha512(1, ChoiceByte("Rock")), 1, now).err
            = "InvalidGameState"
    /\ process_collect_fees(game, "p1", NoAccounts, AllOk).err = "NotAuthorized"

RejectedUnchanged(op, caller, r) == r.err # "Ok" => r.game = game

\* C8 (atomic rejection): every instruction that fails leaves the game
\* record identical to what it was before the instruction.
C8_AtomicRejection == ForAllAttempts(game, now, RejectedUnchanged)

(***************************************************************************)
(* SpecResolver: process_round_results as a function of the choices the    *)
(* players hold when a round is resolved.  Init draws a roster of three or *)
(* four players whose choices are revealed or defaulted to None; the one   *)
(* action resolves the round the way the last RevealChoice does.           *)
(***************************************************************************)
Roster == <<"host", "p1", "p2", "p3">>

RevealedPlayer(pubkey, choice) ==
    [NewPlayer(pubkey) EXCEPT
        !.choice = choice,
        !.salt = 1,
        !.committed_choice =
            HmacSha512(1, ChoiceByte(IF choice = "None" THEN "Rock" ELSE choice)),
        !.revealed = TRUE]

InitResolver ==
    \E n \in 3..4 : \E ch \in [1..n -> Choices] :
        /\ game = [process_initialize_game(Host, n, n, 1, 0, 1, TRUE, "Manual", "SOL", 0, 0)
                     EXCEPT !.players = [k \in 1..n |-> RevealedPlayer(Roster[k], ch[k])],
                            !.state = "RevealPhase"]
        /\ now = 0
        /\ contributions = 0
        /\ paid_out = 0
        /\ claimed = {}
        /\ claims = 0
        /\ rejoins = 0
        /\ restarts = 0
        /\ tourney = NoTournament
        /\ tourney_paid = 0
        /\ losers = {}

ResolveRound ==
    /\ game.state = "RevealPhase"
    /\ game' = Stamp(CloseRound(game), now)
    /\ losers' = LosersAfter(game, CloseRound(game))
    /\ UNCHANGED <<now, contributions, paid_out, claimed, claims, rejoins, restarts,
                   tourney, tourney_paid>>

NextResolver == ResolveRound

SpecResolver == InitResolver /\ [][NextResolver]_vars

Beats == {<<"Rock", "Scissors">>, <<"Paper", "Rock">>, <<"Scissors", "Paper">>}

\* the point player i gains when the pair (i, j) of the roster is compared
Gain(players, pair, i) == ScorePair(players, pair)[i].score - players[i].score

\* C9 (pairwise win relation): comparing (a, b) credits the first exactly when
\* (a, b) is (Rock, Scissors), (Paper, Rock) or (Scissors, Paper), the second
\* exactly when (b, a) is one of those, neither when a = b or one is None;
\* comparing (i, j) and (j, i) never credits both players.
C9_PairwiseWin ==
    \A i, j \in 1..Len(game.players) :
        i # j =>
            LET ps == game.players
                a == ps[i].choice
                b == ps[j].choice
            IN  /\ Gain(ps, <<i, j>>, i) = (IF <<a, b>> \in Beats THEN 1 ELSE 0)
                /\ Gain(ps, <<i, j>>, j) = (IF <<b, a>> \in Beats THEN 1 ELSE 0)
                /\ (a = b \/ a = "None" \/ b = "None") =>
                        Gain(ps, <<i, j>>, i) = 0 /\ Gain(ps, <<i, j>>, j) = 0
                /\ ~(Gain(ps, <<i, j>>, i) = 1 /\ Gain(ps, <<j, i>>, j) = 1)
                /\ \A k \in 1..Len(ps) : k \notin {i, j} => Gain(ps, <<i, j>>, k) = 0

\* a resolved three-player round of Rock, Scissors, None: the first player
\* took the only point
C9_Witness ==
    /\ game.state = "Finished"
    /\ Len(game.players) = 3
    /\ game.players[1].choice = "Rock"
    /\ game.players[2].choice = "Scissors"
    /\ game.players[3].choice = "None"
    /\ game.players[1].score = 1
    /\ game.players[2].score = 0
    /\ game.players[3].score = 0

RECURSIVE SumScores(_, _)
SumScores(players, k) ==
    IF k > Len(players) THEN 0 ELSE players[k].score + SumScores(players, k + 1)

\* C10 (round-robin scoring): one resolution over N players compares each
\* unordered pair exactly once, each comparison adds at most one point and
\* only to a member of the pair, every player gains one point per opponent
\* beaten, and the scores grow by at most N*(N-1)/2 in total.
C10_RoundRobin ==
    LET ps == game.players
        n == Len(ps)
        pairs == LoopPairs(n)
        after == process_round_results(game).players
    IN  /\ Len(pairs) = (n * (n - 1)) \div 2
        /\ \A i, j \in 1..n :
                i < j => Cardinality({k \in 1..Len(pairs) :
                            pairs[k] = <<i, j>> \/ pairs[k] = <<j, i>>}) = 1
        /\ \A k \in 1..Len(pairs) :
                /\ pairs[k][1] # pairs[k][2]
                /\ SumScores(ScorePair(ps, pairs[k]), 1) - SumScores(ps, 1) \in {0, 1}
                /\ \A m \in 1..n : m \notin {pairs[k][1], pairs[k][2]} =>
                        ScorePair(ps, pairs[k])[m] = ps[m]
        /\ \A i \in 1..n :
                after[i].score - ps[i].score =
                    Cardinality({j \in 1..n : j # i /\ <<ps[i].choice, ps[j].choice>> \in Beats})
        /\ SumScores(after, 1) - SumScores(ps, 1) <= (n * (n - 1)) \div 2

\* a resolved three-player round of Rock, Paper, Scissors: each of the three
\* pairs gave one point
C10_Witness ==
    /\ game.state = "Finished"
    /\ Len(game.players) = 3
    /\ {game.players[k].choice : k \in 1..3} = RPS
    /\ SumScores(game.players, 1) = 3
    /\ \A k \in 1..3 : game.players[k].score = 1

(***************************************************************************)
(* SpecCommit: the commit-reveal protocol of a three-player game without   *)
(* an entry fee and with a timeout of 0 seconds, every commitment input.   *)
(***************************************************************************)
InitCommit == InitWith({Config(3, 3, 1, 0, 0, "SOL", FALSE, 0)})

NextCommit ==
    \/ JoinGame({"p1", "p2"}, {NoAccounts}, {AllOk})
    \/ CommitChoice(Players3, AllCommits)
    \/ RevealChoice(Players3, Choices)
    \/ ResolveTimeout

SpecCommit == InitCommit /\ [][NextCommit]_vars

\* the salt and the choice byte a stored commitment was computed from
MadeWithSalt(p) == p.committed_choice[1]
MadeForByte(p) == p.committed_choice[2]

\* the reveal of choice c by roster entry k of record g is accepted exactly
\* when the commitment was computed from c and the salt stored with it
RevealDecided(g, k, c) ==
    LET p == g.players[k]
        r == process_reveal_choice(g, p.pubkey, c, now)
    IN  IF MadeWithSalt(p) = p.salt /\ MadeForByte(p) = ChoiceByte(c)
        THEN /\ r.err = "Ok"
             /\ r.game.state # "CommitPhase" =>
                    r.game.players[k].choice = c /\ r.game.players[k].revealed
        ELSE r.err = "InvalidHash" /\ r.game = g

\* C3 (commit-reveal round trip): a player who committed H(salt, choice)
\* together with that salt has RevealChoice(choice) accepted in RevealPhase;
\* RevealChoice of another choice, or of the same choice when the commitment
\* was made with a different salt, fails with InvalidHash and leaves the
\* record unchanged.
C3_CommitRevealRoundTrip ==
    /\ game.state = "RevealPhase" =>
            \A k \in 1..Len(game.players), c \in RPS : RevealDecided(game, k, c)
    /\ game.state = "CommitPhase" =>
            \A k \in 1..Len(game.players), made \in RPS, hs \in Salts, s \in Salts :
                LET r == process_commit_choice(game, game.players[k].pubkey,
                             HmacSha512(hs, ChoiceByte(made)), s, now)
                IN  /\ r.err = "Ok"
                    /\ MadeWithSalt(r.game.players[k]) = hs
                    /\ MadeForByte(r.game.players[k]) = ChoiceByte(made)
                    /\ r.game.players[k].salt = s
                    /\ r.game.state = "RevealPhase" =>
                            \A c \in RPS : RevealDecided(r.game, k, c)

\* in RevealPhase the host has revealed the Rock it committed to under salt 2,
\* and p1 holds a commitment made under salt 2 but stored with salt 1
C3_Witness ==
    /\ game.state = "RevealPhase"
    /\ Len(game.players) = 3
    /\ game.players[1].committed_choice = HmacSha512(2, ChoiceByte("Rock"))
    /\ game.players[1].salt = 2
    /\ game.players[1].revealed
    /\ game.players[1].choice = "Rock"
    /\ game.players[2].committed_choice = HmacSha512(2, ChoiceByte("Rock"))
    /\ game.players[2].salt = 1
    /\ process_reveal_choice(game, game.players[2].pubkey, "Rock", now).err = "InvalidHash"
    /\ process_reveal_choice(game, "host", "Paper", now).err = "InvalidHash"

\* C4 (binding after reveals): while the game is in RevealPhase CommitChoice
\* is rejected and no step changes a stored commitment or salt, and the
\* choice a player holds after any step taken in RevealPhase is None or the
\* choice its commitment was made for.
C4_BindingAfterReveals ==
    [][game.state = "RevealPhase" =>
        /\ \A p \in Users, c \in AllCommits :
                process_commit_choice(game, p, c[1], c[2], now).err = "InvalidGameState"
        /\ game'.state # "CommitPhase" =>
                /\ Len(game'.players) = Len(game.players)
                /\ \A k \in 1..Len(game.players) :
                        /\ game'.players[k].pubkey = game.players[k].pubkey
                        /\ game'.players[k].committed_choice = game.players[k].committed_choice
                        /\ game'.players[k].salt = game.players[k].salt
                        /\ \/ game'.players[k].choice = "None"
                           \/ /\ ChoiceByte(game'.players[k].choice) = MadeForByte(game.players[k])
                              /\ game.players[k].salt = MadeWithSalt(game.players[k])
    ]_vars

\* a finished round entered through RevealPhase: the host ends with the Paper
\* it committed to and revealed, p1 never revealed and ends with None
C4_Witness ==
    /\ game.state = "Finished"
    /\ Len(game.players) = 3
    /\ game.players[1].committed_choice = HmacSha512(1, ChoiceByte("Paper"))
    /\ game.players[1].choice = "Paper"
    /\ game.players[2].committed_choice = HmacSha512(1, ChoiceByte("Rock"))
    /\ game.players[2].choice = "None"
    /\ game.players[2].revealed
    /\ game.players[1].score = 0

\* the choices for which the record's salt and commitment of player p agree
ConsistentChoices(p) ==
    {c \in RPS : HmacSha512(p.salt, ChoiceByte(c)) = p.committed_choice}

\* C5 (hiding): before a player reveals, the record does not determine the
\* player's choice: recomputing the keyed hash of the three choices with the
\* stored salt never singles out one of them.
C5_Hiding ==
    \A k \in 1..Len(game.players) :
        LET p == game.players[k]
        IN  (p.committed_choice # ZERO64 /\ ~p.revealed) =>
                Cardinality(ConsistentChoices(p)) # 1

(***************************************************************************)
(* LiveSpec: a three-player game without an entry fee under a clock that   *)
(* never stops.  The handlers read the clock only through its distance to  *)
(* last_action_timestamp, so once the clock has reached LiveTimeout a tick *)
(* moves the origin of time instead: both stay comparable for ever.  The   *)
(* clock keeps advancing, and ResolveTimeout is invoked whenever it is     *)
(* permitted again and again.                                              *)
(***************************************************************************)
InitLive == InitWith({Config(3, 3, 1, 0, LiveTimeout, "SOL", FALSE, 0)})

TickLive ==
    /\ IF now < LiveTimeout
       THEN now' = now + 1 /\ game' = game
       ELSE now' = now /\ game' = [game EXCEPT !.last_action_timestamp = SaturatingSub(@, 1)]
    /\ UNCHANGED <<contributions, paid_out, claimed, claims, rejoins, restarts,
                   tourney, tourney_paid, losers>>

NextLive ==
    \/ JoinGame({"p1", "p2"}, {NoAccounts}, {AllOk})
    \/ CommitChoice(Players3, RockCommit)
    \/ RevealChoice(Players3, {"Rock"})
    \/ ResolveTimeout
    \/ TickLive

LiveSpec ==
    /\ InitLive
    /\ [][NextLive]_vars
    /\ WF_vars(TickLive)
    /\ SF_vars(ResolveTimeout)

\* C6 (liveness): every created game eventually reaches Finished, whatever
\* the players do, when the clock advances and ResolveTimeout is invoked
\* whenever it is permitted.
C6_EventuallyFinished == <>(game.state = "Finished")

(***************************************************************************)
(* SpecFee: three-player games in both currency modes whose entry fee      *)
(* ranges from the smallest up to fees whose product with FEE_PERCENTAGE   *)
(* exceeds the unsigned 64-bit range, filled by joining players and bots.  *)
(***************************************************************************)
EntryFees == {1, 99, 1000, 1999, 2 * (U64_MAX \div FEE_PERCENTAGE)}

InitFee == InitWith({Config(3, 3, 1, e, 1, cm, FALSE, 0) : e \in EntryFees, cm \in {"SOL", "RPSToken"}})

NextFee ==
    \/ JoinGame({"p1", "p2"}, {NoAccounts, TokenAccounts}, {AllOk})
    \/ AddBotPlayers({"host"})
    \/ CollectFees({"host", FEE_COLLECTOR}, {NoAccounts, TokenAccounts}, {AllOk})
    \/ ResolveTimeout
    \/ Tick

SpecFee == InitFee /\ [][NextFee]_vars

\* floor(amount * FEE_PERCENTAGE / FEE_DENOMINATOR) in unbounded arithmetic,
\* computed by parts so that no intermediate product leaves the integers of
\* the checker
ExactFee(amount) ==
    (amount \div FEE_DENOMINATOR) * FEE_PERCENTAGE
        + ((amount % FEE_DENOMINATOR) * FEE_PERCENTAGE) \div FEE_DENOMINATOR

\* the number of entry fees an accepted instruction credits to the record
FeesCredited(op, before, after) ==
    IF op = "RejoinGame" THEN 1 ELSE Len(after.players) - Len(before.players)

CreditsExactSplit(op, caller, r) ==
    (op \in {"JoinGame", "RejoinGame", "AddBotPlayers"} /\ r.err = "Ok") =>
        LET n == FeesCredited(op, game, r.game)
        IN  /\ r.game.fee_collected = game.fee_collected + n * ExactFee(game.entry_fee)
            /\ r.game.game_pot =
                   game.game_pot + n * (game.entry_fee - ExactFee(game.entry_fee))

\* C11: every instruction that takes an entry fee (JoinGame, RejoinGame, each
\* bot of AddBotPlayers, and the creation of the game by the host) raises
\* fee_collected by floor(entry_fee * 10 / 1000) and game_pot by the entry fee
\* minus that fee, for every positive entry fee of 64 bits.
C11_FeeSplit ==
    /\ (game.state = "WaitingForPlayers" /\ Len(game.players) = 1
            /\ game.fee_collected # 0)
         => /\ game.fee_collected = ExactFee(game.entry_fee)
            /\ game.game_pot = game.entry_fee - ExactFee(game.entry_fee)
    /\ ForAllAttempts(game, now, CreditsExactSplit)

(***************************************************************************)
(* SpecPayout: three-player, one-round games with an entry fee of 100 in   *)
(* which every player commits and reveals any of Rock, Paper and Scissors; *)
(* the pot of the finished game is claimed and losers rejoin.              *)
(***************************************************************************)
PlayCommits == {<<HmacSha512(1, ChoiceByte(c)), 1>> : c \in RPS}

InitPayout == InitWith({Config(3, 3, 1, 100, 1, "SOL", FALSE, 0)})

NextPayout ==
    \/ JoinGame({"p1", "p2"}, {NoAccounts}, {AllOk})
    \/ CommitChoice(Players3, PlayCommits)
    \/ RevealChoice(Players3, RPS)
    \/ ClaimWinningsUpTo(Callers, {NoAccounts}, {AllOk}, MaxPayoutClaims)
    \/ RejoinGame(Players3, {NoAccounts}, {AllOk})

SpecPayout == InitPayout /\ [][NextPayout]_vars

WinnerKeys(g) == {g.players[i].pubkey : i \in Winners(g)}

\* the orders in which the members of `keys` can each act once
Orders(keys) ==
    {o \in [1..Cardinality(keys) -> keys] :
        \A i, j \in 1..Cardinality(keys) : o[i] = o[j] => i = j}

\* the results of ClaimWinnings invoked by the callers of `order` in turn
RECURSIVE ClaimsInTurn(_, _)
ClaimsInTurn(g, order) ==
    IF order = <<>> THEN <<>>
    ELSE LET r == process_claim_winnings(g, Head(order), NoAccounts, AllOk)
         IN  <<r>> \o ClaimsInTurn(r.game, Tail(order))

\* a finished game whose pot nobody has claimed from yet
FreshlyFinished == game.state = "Finished" /\ claims = 0

\* C12: when a game is Finished with pot P and k players tied at the maximum
\* score, each of the k who claims is paid exactly floor(P / k), and once all k
\* have claimed game_pot is P mod k.
C12_EvenPayout ==
    FreshlyFinished =>
        LET P == game.game_pot
            k == Cardinality(Winners(game))
        IN  \A order \in Orders(WinnerKeys(game)) :
                LET rs == ClaimsInTurn(game, order)
                IN  /\ \A i \in 1..k : rs[i].err = "Ok" /\ rs[i].paid_out = P \div k
                    /\ rs[k].game.game_pot = P % k

\* Scenario B: a freshly finished three-player game in which Rock, Paper and
\* Scissors were each revealed by one player
ScenarioB ==
    /\ FreshlyFinished
    /\ Len(game.players) = 3
    /\ \A i \in 1..3 : game.players[i].revealed
    /\ {game.players[i].choice : i \in 1..3} = RPS

\* a further ClaimWinnings by `caller` on record g
ClaimAgain(g, caller) == process_claim_winnings(g, caller, NoAccounts, AllOk)

\* the first ClaimWinnings of each player, in any order, pays a third of the pot
FirstClaimsPayThird(rs) ==
    \A i \in 1..3 : rs[i].err = "Ok" /\ rs[i].paid_out = game.game_pot \div 3

\* after the first i claims, a claim by one who has claimed or by a
\* non-participant fails with NotWinner
FurtherClaimsNotWinner(rs, order) ==
    \A i \in 1..3 :
        /\ \A j \in 1..i : ClaimAgain(rs[i].game, order[j]).err = "NotWinner"
        /\ ClaimAgain(rs[i].game, "outsider").err = "NotWinner"

\* C13: in a three-player, one-round game where Rock, Paper and Scissors are
\* revealed, the game is Finished with every score 1; each player's first
\* ClaimWinnings succeeds and pays one third of the pot held at finish; any
\* further ClaimWinnings by one of them, and any by a non-participant, fails
\* with NotWinner.
C13_ScenarioB ==
    ScenarioB =>
        /\ \A i \in 1..3 : game.players[i].score = 1
        /\ ClaimAgain(game, "outsider").err = "NotWinner"
        /\ \A order \in Orders(Players3) :
               LET rs == ClaimsInTurn(game, order)
               IN  FirstClaimsPayThird(rs) /\ FurtherClaimsNotWinner(rs, order)

(***************************************************************************)
(* Claims about ResolveTimeout in CommitPhase, checked under SpecCommit.   *)
(***************************************************************************)
NumberCommitted(g) ==
    Cardinality({i \in 1..Len(g.players) : g.players[i].committed_choice # ZERO64})

\* C14: after a successful ResolveTimeout on a game in CommitPhase the roster
\* holds no player with an empty commitment, and the state is RevealPhase if
\* at least min_players had committed, otherwise Finished.
C14_CommitTimeout ==
    LET r == process_resolve_timeout(game, now)
    IN  (game.state = "CommitPhase" /\ r.err = "Ok") =>
            /\ \A i \in 1..Len(r.game.players) :
                   r.game.players[i].committed_choice # ZERO64
            /\ r.game.state = IF NumberCommitted(game) >= game.min_players
                              THEN "RevealPhase" ELSE "Finished"

(***************************************************************************)
(* Claims about the timeout gate, checked under LiveSpec, where the        *)
(* required timeout is LiveTimeout and the clock passes every elapsed time *)
(* from 0 to LiveTimeout in every phase.                                   *)
(***************************************************************************)
TimeElapsed == now - game.last_action_timestamp

\* C15: ResolveTimeout, whoever signs it, changes a game only when
\* now - last_action_timestamp >= required_timeout; when less time has elapsed
\* it fails with TimeoutNotReached and the record is unchanged.  Once the time
\* has elapsed it is accepted in every state but Finished.
C15_TimeoutGating ==
    LET r == process_resolve_timeout(game, now)
    IN  /\ TimeElapsed < game.required_timeout
             => r.err = "TimeoutNotReached" /\ r.game = game
        /\ r.game # game => TimeElapsed >= game.required_timeout
        /\ (TimeElapsed >= game.required_timeout /\ game.state # "Finished")
             => r.err = "Ok"

\* a game in RevealPhase, some but not enough time after its last action, on
\* which ResolveTimeout is refused
C15_Witness ==
    /\ game.state = "RevealPhase"
    /\ TimeElapsed > 0
    /\ TimeElapsed < game.required_timeout
    /\ process_resolve_timeout(game, now).err = "TimeoutNotReached"

(***************************************************************************)
(* Claims about CollectFees and JoinGame, checked under SpecFee.           *)
(***************************************************************************)
MayCollect(caller) == game.state = "Finished" \/ caller = FEE_COLLECTOR

CollectsAsStated(op, caller, r) ==
    op = "CollectFees" =>
        /\ game.fee_collected = 0 => r.err = "InsufficientFunds"
        /\ (game.fee_collected # 0 /\ ~MayCollect(caller)) => r.err = "NotAuthorized"
        /\ r.err = "Ok" =>
              /\ MayCollect(caller)
              /\ r.game = [game EXCEPT !.fee_collected = 0]
              /\ r.received = 0
              \* the native transfer moves the whole balance; the token
              \* transfer is left to the token program
              /\ game.currency_mode = "SOL" => r.paid_out = game.fee_collected
        /\ r.err # "Ok" => r.game = game /\ r.paid_out = 0

OnRoster(g, caller) == \E i \in 1..Len(g.players) : g.players[i].pubkey = caller

JoinsAsStated(g, caller, r) ==
    IF g.state # "WaitingForPlayers"
    THEN r.err = "InvalidGameState" /\ r.game = g
    ELSE IF OnRoster(g, caller)
    THEN r.err = "PlayerAlreadyJoined" /\ r.game = g
    ELSE IF Len(g.players) >= g.player_count
    THEN r.err = "GameFull" /\ r.game = g
    ELSE /\ r.err \notin {"InvalidGameState", "PlayerAlreadyJoined", "GameFull"}
         /\ r.err = "Ok" => r.game.players = Append(g.players, NewPlayer(caller))
         /\ r.game.players \in {g.players, Append(g.players, NewPlayer(caller))}

\* a waiting record whose roster has reached the required player count; the
\* instructions never store one, because the join that fills the roster
\* moves the game to CommitPhase
FullWaiting(g) == [g EXCEPT !.state = "WaitingForPlayers", !.player_count = Len(g.players)]

\* C17: JoinGame fails with InvalidGameState unless the game is
\* WaitingForPlayers, with PlayerAlreadyJoined if the caller already has a
\* roster entry, and with GameFull if the roster has reached the required
\* player count, in that order; only otherwise is exactly one entry for the
\* caller appended at the end of the roster, and with its transfers going
\* through the join is accepted.
C17_JoinRejection ==
    \A caller \in Users :
        /\ \A acc \in AllAccounts, ext \in AllTransfers :
               /\ JoinsAsStated(game, caller,
                                process_join_game(game, caller, acc, ext, now))
               /\ JoinsAsStated(FullWaiting(game), caller,
                                process_join_game(FullWaiting(game), caller, acc, ext, now))
        /\ (game.state = "WaitingForPlayers" /\ ~OnRoster(game, caller))
               => process_join_game(game, caller, TokenAccounts, AllOk, now).err = "Ok"

\* p1 has joined a waiting game: a second JoinGame of p1 is refused with
\* PlayerAlreadyJoined and the JoinGame of p2 is accepted
C17_Witness ==
    /\ game.state = "WaitingForPlayers"
    /\ Len(game.players) = 2
    /\ game.players[2].pubkey = "p1"
    /\ process_join_game(game, "p1", NoAccounts, AllOk, now).err = "PlayerAlreadyJoined"
    /\ process_join_game(game, "p2", TokenAccounts, AllOk, now).game.players[3].pubkey = "p2"

(***************************************************************************)
(* Claims about RejoinGame, checked under SpecPayout.                      *)
(***************************************************************************)
\* the roster position of a caller whose score is below that of some player
IsLoser(g, i) == \E j \in 1..Len(g.players) : g.players[j].score > g.players[i].score

\* record g after the player at roster position i has rejoined at time t
Rejoined(g, i, t) ==
    [g EXCEPT !.game_pot = @ + pot_amount_of(g),
              !.fee_collected = @ + fee_amount_of(g),
              !.players[i].choice = "None",
              !.players[i].committed_choice = ZERO64,
              !.players[i].salt = ZERO32,
              !.players[i].revealed = FALSE,
              !.last_action_timestamp = t]

RejoinsAsStated(op, caller, r) ==
    (op = "RejoinGame" /\ r.err = "Ok") =>
        /\ game.state = "Finished"
        /\ game.losers_can_rejoin
        /\ \E i \in 1..Len(game.players) :
               /\ game.players[i].pubkey = caller
               /\ IsLoser(game, i)
               /\ r.game = Rejoined(game, i, now)

\* C18: RejoinGame succeeds only when the game is Finished, losers_can_rejoin
\* is set and the caller is a roster member whose score is strictly below the
\* maximum score; it then credits one entry-fee split to pot and fees and
\* clears only that player's choice, commitment, salt and revealed flag: the
\* roster membership and order, every score, the state and current_round stay
\* as they were.  A loser whose transfers go through is accepted, and nobody
\* is when the flag is cleared.
C18_Rejoin ==
    /\ ForAllAttempts(game, now, RejoinsAsStated)
    /\ \A i \in 1..Len(game.players) :
           LET caller == game.players[i].pubkey
           IN  /\ (game.state = "Finished" /\ IsLoser(game, i))
                    => process_rejoin_game(game, caller, NoAccounts, AllOk, now).err = "Ok"
               /\ process_rejoin_game([game EXCEPT !.losers_can_rejoin = FALSE],
                                      caller, NoAccounts, AllOk, now).err = "InvalidGameState"

\* a loser has rejoined a finished game: its round fields are cleared, a
\* fourth fee has been credited, and it is still below the maximum score
C18_Witness ==
    /\ game.state = "Finished"
    /\ rejoins = 1
    /\ game.fee_collected = 4 * fee_amount_of(game)
    /\ \E i \in 1..Len(game.players) :
           /\ IsLoser(game, i)
           /\ ~game.players[i].revealed
           /\ game.players[i].committed_choice = ZERO64

(***************************************************************************)
(* Invariants of the roster entries, checked under SpecCommit.             *)
(***************************************************************************)
\* C19: in every reachable state a player whose stored commitment is
\* non-empty (not all zero) has committed in the current round and has
\* revealed = false.  The formula is the part of the claim that is visible
\* in the state: no entry holds a non-empty commitment with revealed = true.
C19_CommitmentInvariant ==
    \A i \in 1..Len(game.players) :
        game.players[i].committed_choice # ZERO64 => ~game.players[i].revealed

(***************************************************************************)
(* SpecReveal: free three-player, one-round games with a timeout of 0 in   *)
(* which a player commits to Rock or to the byte 0, which is the byte of   *)
(* no choice, and reveals any choice or lets the timeout pass.             *)
(***************************************************************************)
NoneCommit == {<<HmacSha512(1, 0), 1>>}

InitReveal == InitWith({Config(3, 3, 1, 0, 0, "SOL", FALSE, 0)})

NextReveal ==
    \/ JoinGame({"p1", "p2"}, {NoAccounts}, {AllOk})
    \/ CommitChoice(Players3, RockCommit \cup NoneCommit)
    \/ RevealChoice(Players3, Choices)
    \/ ResolveTimeout

SpecReveal == InitReveal /\ [][NextReveal]_vars

RevealedNone(g, i) == g.players[i].revealed /\ g.players[i].choice = "None"

\* the step from game to game' is an accepted ResolveTimeout in RevealPhase
ForcedByTimeout ==
    /\ game.state = "RevealPhase"
    /\ process_resolve_timeout(game, now).err = "Ok"
    /\ game' = process_resolve_timeout(game, now).game

\* C20: in every reachable state a player with revealed = true has a choice
\* other than None, unless its reveal in the current round was force-defaulted
\* by ResolveTimeout: an entry is revealed with choice None after a step only
\* if that step is a ResolveTimeout in RevealPhase that found the entry
\* unrevealed, or if the entry was so before the step.
C20_RevealInvariant ==
    [][\A i \in 1..Len(game'.players) :
            RevealedNone(game', i) =>
                \/ /\ ForcedByTimeout
                   /\ ~game.players[i].revealed
                \/ /\ Len(game.players) = Len(game'.players)
                   /\ RevealedNone(game, i)]_vars

\* a game finished by the timeout in which host revealed Rock and p1, who had
\* committed to the byte 0, was defaulted to None
C20_Witness ==
    /\ game.state = "Finished"
    /\ Len(game.players) = 3
    /\ game.players[1].revealed /\ game.players[1].choice = "Rock"
    /\ game.players[2].committed_choice = HmacSha512(1, 0)
    /\ RevealedNone(game, 2)

(***************************************************************************)
(* Claims about the time stamp, checked under SpecFee.                     *)
(***************************************************************************)
StampsTheClock(op, caller, r) ==
    (r.err = "Ok" /\ r.game # game) => r.game.last_action_timestamp = now

\* C21: every instruction that succeeds and changes the game record (JoinGame,
\* AddBotPlayers, CommitChoice, RevealChoice, ResolveTimeout, ClaimWinnings,
\* RejoinGame, StartNewGameRound, AutoPlayNextRound, CollectFees) sets
\* last_action_timestamp to the current clock value.
C21_Timestamping == ForAllAttempts(game, now, StampsTheClock)

(***************************************************************************)
(* SpecLobby: games for three to four players with an entry fee of 100 and *)
(* a timeout of 0, created at an even or an odd clock value, so that the   *)
(* required player count is 3 or 4; the lobby is filled by players and     *)
(* bots or closed by the timeout, and the players that are not bots commit.*)
(***************************************************************************)
InitLobby == InitWith({Config(3, 4, 1, 100, 0, "SOL", FALSE, t) : t \in 0..1})

NextLobby ==
    \/ JoinGame({"p1", "p2", "p3"}, {NoAccounts}, {AllOk})
    \/ AddBotPlayers({"host", "outsider"})
    \/ ResolveTimeout
    \/ CommitChoice({"host", "p1"}, RockCommit)
    \/ Tick

SpecLobby == InitLobby /\ [][NextLobby]_vars

StartsWhenFull(op, caller, r) ==
    (op \in {"JoinGame", "AddBotPlayers"} /\ r.err = "Ok") =>
        r.game.state = IF Len(r.game.players) >= game.player_count
                       THEN "CommitPhase" ELSE "WaitingForPlayers"

\* C22: in every reachable state with state = WaitingForPlayers the roster is
\* strictly smaller than the required player count; the JoinGame or
\* AddBotPlayers that brings the roster to the required player count moves
\* the game to CommitPhase in the same step, and one that does not leaves it
\* in WaitingForPlayers.
C22_AutomaticStart ==
    /\ game.state = "WaitingForPlayers" => Len(game.players) < game.player_count
    /\ ForAllAttempts(game, now, StartsWhenFull)

\* a game for four players that the fourth entry, a bot, has moved to
\* CommitPhase
C22_Witness ==
    /\ game.state = "CommitPhase"
    /\ game.player_count = 4
    /\ Len(game.players) = 4
    /\ game.players[4].pubkey = BotPubkey(3, 0)
    /\ \A i \in 1..4 : game.players[i].committed_choice = ZERO64

(***************************************************************************)
(* SpecRounds: free three-player games of two rounds with a timeout of 0.  *)
(* Every player commits to Rock, the host also to Paper and p2 also the    *)
(* all-zero commitment; they reveal, or a timeout closes the phase.        *)
(***************************************************************************)
ZeroCommit == {<<ZERO64, 1>>}

InitRounds == InitWith({Config(3, 3, 2, 0, 0, "SOL", FALSE, 0)})

NextRounds ==
    \/ JoinGame({"p1", "p2"}, {NoAccounts}, {AllOk})
    \/ CommitChoice(Players3, RockCommit)
    \/ CommitChoice({"host"}, PaperCommit)
    \/ CommitChoice({"p2"}, ZeroCommit)
    \/ RevealChoice(Players3, Choices)
    \/ ResolveTimeout

SpecRounds == InitRounds /\ [][NextRounds]_vars

HoldsCommitment(g, i) == g.players[i].committed_choice # ZERO64

ClosesWhenAllCommitted(op, caller, r) ==
    (op = "CommitChoice" /\ r.err = "Ok") =>
        r.game.state = IF \A i \in 1..Len(r.game.players) : HoldsCommitment(r.game, i)
                       THEN "RevealPhase" ELSE "CommitPhase"

InitPlay == InitWith({Config(3, 3, n, 0, 1, "SOL", FALSE, 0) : n \in 1..MaxRounds})

NextPlay ==
    \/ JoinGame({"p1", "p2"}, {NoAccounts}, {AllOk})
    \/ CommitChoice({"host"}, PaperCommit)
    \/ CommitChoice({"p1", "p2"}, RockCommit)
    \/ RevealChoice(Players3, Choices)

SpecPlay == InitPlay /\ [][NextPlay]_vars

\* the points the choice at roster position i wins against the other choices
RoundPoints(players, i) ==
    Cardinality({j \in 1..Len(players) : <<players[i].choice, players[j].choice>> \in Beats})

\* the roster once the player at position i has revealed choice c
Shown(players, i, c) == [players EXCEPT ![i].choice = c, ![i].revealed = TRUE]

\* the accepted reveal of choice c by the player at position i, giving record
\* g2, closes the round as stated when it is the last one outstanding and
\* leaves phase, round and scores alone when it is not
ClosesRoundAsStated(i, c, g2) ==
    LET shown == Shown(game.players, i, c)
        n == Len(game.players)
    IN  IF \E j \in 1..n : ~shown[j].revealed
        THEN /\ g2.state = "RevealPhase"
             /\ g2.current_round = game.current_round
             /\ g2.players = shown
        ELSE IF game.current_round >= game.total_rounds
        THEN /\ g2.state = "Finished"
             /\ g2.current_round = game.current_round
             /\ g2.players = [j \in 1..n |->
                    [shown[j] EXCEPT !.score = @ + RoundPoints(shown, j)]]
        ELSE /\ g2.state = "CommitPhase"
             /\ g2.current_round = game.current_round + 1
             /\ g2.players = [j \in 1..n |->
                    [NewPlayer(shown[j].pubkey) EXCEPT
                        !.score = shown[j].score + RoundPoints(shown, j)]]

\* C24: the RevealChoice that makes every current player revealed resolves
\* the round first and then, if current_round >= total_rounds, sets state to
\* Finished, otherwise increments current_round by one, sets state to
\* CommitPhase and clears every player's choice, commitment, salt and revealed
\* flag while keeping every score; a game that finishes without any timeout
\* has resolved exactly total_rounds rounds (here the host, who wins two
\* points in every resolved round, finishes with 2 * total_rounds points).
C24_RoundClose ==
    /\ \A i \in 1..Len(game.players), c \in Choices :
           LET r == process_reveal_choice(game, game.players[i].pubkey, c, now)
           IN  r.err = "Ok" => ClosesRoundAsStated(i, c, r.game)
    /\ game.current_round <= game.total_rounds
    /\ game.state = "Finished" =>
           /\ game.current_round = game.total_rounds
           /\ game.players[1].score = 2 * game.total_rounds
           /\ \A j \in 2..Len(game.players) : game.players[j].score = 0

\* a game of three rounds in the commit phase of its third round: everything
\* but the scores is cleared and the host has won two resolved rounds
C24_Witness ==
    /\ game.total_rounds = 3
    /\ game.current_round = 3
    /\ game.state = "CommitPhase"
    /\ game.players[1].score = 4
    /\ \A j \in 1..Len(game.players) :
           game.players[j].choice = "None" /\ ~game.players[j].revealed

(***************************************************************************)
(* Claims about the lobby, checked under SpecLobby.                        *)
(***************************************************************************)
\* C25: a successful ResolveTimeout on a game in WaitingForPlayers sets state
\* to Finished when the roster has at most one player or fewer than
\* min_players players, and to CommitPhase with the roster unchanged when it
\* has at least min_players players; pot, fees and scores are unchanged (of
\* the whole record only the state and the time stamp change).
C25_WaitingTimeout ==
    LET r == process_resolve_timeout(game, now)
        n == Len(game.players)
    IN  (game.state = "WaitingForPlayers" /\ r.err = "Ok") =>
            r.game = [game EXCEPT
                        !.state = IF n <= 1 \/ n < game.min_players
                                  THEN "Finished" ELSE "CommitPhase",
                        !.last_action_timestamp = now]

\* a game waiting for its fourth player that the timeout has started with
\* three: the host, p1 and a bot
C25_Witness ==
    /\ game.state = "CommitPhase"
    /\ game.player_count = 4
    /\ Len(game.players) = 3
    /\ game.players[2].pubkey = "p1"
    /\ game.players[3].pubkey = BotPubkey(2, 0)
    /\ game.game_pot = 3 * pot_amount_of(game)

(***************************************************************************)
(* Claims about the RevealPhase timeout, checked under SpecRounds.         *)
(***************************************************************************)
\* the roster with every player who has not revealed given the choice None
Defaulted(players) ==
    [j \in 1..Len(players) |->
        IF players[j].revealed THEN players[j]
        ELSE [players[j] EXCEPT !.choice = "None", !.revealed = TRUE]]

\* the points the player at position j wins against the players who had
\* revealed a choice themselves
PointsAgainstRevealed(players, j) ==
    Cardinality({k \in 1..Len(players) :
        /\ players[k].revealed
        /\ <<players[j].choice, players[k].choice>> \in Beats})

\* the score the player at position j has after the round is resolved:
\* unchanged for one who had not revealed
ScoreAfterTimeout(players, j) ==
    IF players[j].revealed
    THEN players[j].score + PointsAgainstRevealed(players, j)
    ELSE players[j].score

\* C26: a successful ResolveTimeout on a game in RevealPhase gives every
\* player who had not revealed the choice None and resolves the round, so that
\* no such player's score increases and no other player gains a point from
\* the comparison with one of them; it then finishes the game or opens the
\* next round by the rule of a normal round close.
C26_RevealTimeout ==
    LET r == process_resolve_timeout(game, now)
        ps == game.players
        n == Len(ps)
    IN  (game.state = "RevealPhase" /\ r.err = "Ok") =>
            IF game.current_round >= game.total_rounds
            THEN r.game = [game EXCEPT
                    !.state = "Finished",
                    !.last_action_timestamp = now,
                    !.players = [j \in 1..n |->
                        [Defaulted(ps)[j] EXCEPT !.score = ScoreAfterTimeout(ps, j)]]]
            ELSE r.game = [game EXCEPT
                    !.state = "CommitPhase",
                    !.current_round = @ + 1,
                    !.last_action_timestamp = now,
                    !.players = [j \in 1..n |->
                        [NewPlayer(ps[j].pubkey) EXCEPT !.score = ScoreAfterTimeout(ps, j)]]]

\* the second round has been opened by a timeout of the first: the host, who
\* had revealed Paper, has one point, from the one Rock that was revealed
C26_Witness ==
    /\ game.state = "CommitPhase"
    /\ game.current_round = 2
    /\ Len(game.players) = 3
    /\ game.players[1].score = 1
    /\ game.players[2].score = 0
    /\ game.players[3].score = 0

\* the numbers of bots asked for: none, fewer than, as many as and more than
\* the free slots
BotCounts == 0..(MaxBots + 2)

\* the entries from position n + 1 on are new entries of distinct keys that
\* belong to no user
AreBots(players, n) ==
    \A j \in (n + 1)..Len(players) :
        /\ players[j] = NewPlayer(players[j].pubkey)
        /\ players[j].pubkey \notin Users
        /\ \A k \in 1..Len(players) : players[k].pubkey = players[j].pubkey => k = j

BotsAddedAsStated(count, r) ==
    LET n == Len(game.players)
        k == IF count <= game.player_count - n THEN count ELSE game.player_count - n
    IN  /\ r.err = "Ok" =>
              /\ game.state = "WaitingForPlayers"
              /\ k > 0
              /\ Len(r.game.players) = n + k
              /\ Len(r.game.players) <= game.player_count
              /\ SubSeq(r.game.players, 1, n) = game.players
              /\ AreBots(r.game.players, n)
              /\ r.game.game_pot = game.game_pot + k * pot_amount_of(game)
              /\ r.game.fee_collected = game.fee_collected + k * fee_amount_of(game)
        /\ game.state = "WaitingForPlayers" =>
              IF k = 0 THEN r.err = "GameFull" /\ r.game = game ELSE r.err = "Ok"

\* C27: AddBotPlayers(count) succeeds only in WaitingForPlayers, adds exactly
\* min(count, required player count - roster size) bot entries and credits
\* one entry-fee split per bot added, never takes the roster above the
\* required player count, and fails with GameFull leaving the record
\* unchanged when that minimum is 0.
C27_BotCapacity ==
    \A caller \in Users, count \in BotCounts :
        BotsAddedAsStated(count, process_add_bot_players(game, caller, count, now))

\* a game for four players holding the host and one bot, for which a request
\* for three more bots is cut down to the two free slots
C27_Witness ==
    /\ game.state = "WaitingForPlayers"
    /\ game.player_count = 4
    /\ Len(game.players) = 2
    /\ game.players[2].pubkey = BotPubkey(1, 0)
    /\ game.game_pot = 2 * pot_amount_of(game)
    /\ Len(process_add_bot_players(game, "outsider", 3, now).game.players) = 4

(***************************************************************************)
(* SpecAuto, SpecRestart: three-player games of one round in either game   *)
(* mode with an auto-round limit of 0..MaxAutoRounds, played to Finished   *)
(* and started again.  SpecAuto starts them again with AutoPlayNextRound   *)
(* only, so that `restarts` counts its successes; SpecRestart adds         *)
(* StartNewGameRound.                                                      *)
(***************************************************************************)
GameModes == {"Manual", "Automated"}

InitAuto ==
    InitWith({[Config(3, 3, 1, 100, 0, "SOL", FALSE, 0)
                  EXCEPT !.game_mode = m, !.max_auto_rounds = k] :
              m \in GameModes, k \in 0..MaxAutoRounds})

NextAuto ==
    \/ JoinGame({"p1", "p2"}, {NoAccounts}, {AllOk})
    \/ CommitChoice({"host"}, PaperCommit)
    \/ CommitChoice({"p1", "p2"}, RockCommit)
    \/ RevealChoice(Players3, Choices)
    \/ ClaimWinnings({"host"}, {NoAccounts}, {AllOk})
    \/ AutoPlayNextRoundUpTo(Callers, MaxAutoRounds + 1)

SpecAuto == InitAuto /\ [][NextAuto]_vars

NextRestart ==
    \/ NextAuto
    \/ StartNewGameRound(Callers)

SpecRestart == InitAuto /\ [][NextRestart]_vars

\* the outcome of a new-game operation for `caller`; `eligible` tells whether
\* the checks made before the one of the caller pass
ResetsAsStated(caller, eligible, r) ==
    LET member == caller = game.host
                     \/ \E i \in 1..Len(game.players) : game.players[i].pubkey = caller
    IN  /\ r.err = "Ok" =>
              /\ game.state = "Finished"
              /\ member
              /\ r.game.state = "CommitPhase"
              /\ r.game.current_round = 1
              /\ Len(r.game.players) = Len(game.players)
              /\ \A i \in 1..Len(game.players) :
                    /\ r.game.players[i].pubkey = game.players[i].pubkey
                    /\ r.game.players[i].score = 0
                    /\ r.game.players[i].choice = "None"
                    /\ r.game.players[i].committed_choice = ZERO64
                    /\ r.game.players[i].salt = ZERO32
                    /\ r.game.players[i].revealed = FALSE
              /\ r.game.game_pot = game.game_pot
              /\ r.game.fee_collected = game.fee_collected
        /\ game.state = "Finished" /\ eligible =>
              r.err = (IF member THEN "Ok" ELSE "NotAuthorized")

\* C28: StartNewGameRound and AutoPlayNextRound succeed only on a Finished
\* game and only for the host or a roster member, anybody else being refused
\* with NotAuthorized; on success the state is CommitPhase, current_round is
\* 1, every player's score is 0 and choice, commitment, salt and revealed are
\* cleared, and the roster membership, game_pot and fee_collected are
\* unchanged.
C28_NewGameReset ==
    \A caller \in Users :
        /\ ResetsAsStated(caller, TRUE,
                          process_start_new_game_round(game, caller, now))
        /\ ResetsAsStated(caller,
                          game.game_mode = "Automated"
                              /\ game.current_auto_round < game.max_auto_rounds,
                          process_auto_play_next_round(game, caller, now))

\* a finished game with a score, a pot and a fee on record that both
\* operations start again for a player and refuse to an outsider
C28_Witness ==
    /\ game.state = "Finished"
    /\ game.players[1].score > 0
    /\ game.players[2].revealed
    /\ game.game_pot > 0
    /\ game.fee_collected > 0
    /\ process_start_new_game_round(game, "p1", now).err = "Ok"
    /\ process_auto_play_next_round(game, "p2", now).err = "Ok"
    /\ process_start_new_game_round(game, "outsider", now).err = "NotAuthorized"
    /\ process_auto_play_next_round(game, "outsider", now).err = "NotAuthorized"

\* only a successful AutoPlayNextRound moves the auto-round counter, by one,
\* and nothing moves the limit
CountsAutoRounds(op, caller, r) ==
    /\ r.game.max_auto_rounds = game.max_auto_rounds
    /\ r.game.current_auto_round =
           IF op = "AutoPlayNextRound" /\ r.err = "Ok"
           THEN game.current_auto_round + 1
           ELSE game.current_auto_round

AutoPlayBudgeted(caller, r) ==
    /\ game.game_mode = "Manual" => r.err # "Ok" /\ r.game = game
    /\ game.current_auto_round >= game.max_auto_rounds => r.err # "Ok" /\ r.game = game

\* C29: AutoPlayNextRound fails in Manual mode and fails when
\* current_auto_round >= max_auto_rounds; each success increments
\* current_auto_round by exactly one and no other operation changes it, so
\* that current_auto_round <= max_auto_rounds in every reachable state and
\* the number of AutoPlayNextRound operations that have succeeded on the game
\* (`restarts`, where it is the only operation that starts a new game) never
\* exceeds max_auto_rounds.
C29_AutoRoundBudget ==
    /\ \A caller \in Users :
           AutoPlayBudgeted(caller, process_auto_play_next_round(game, caller, now))
    /\ ForAllAttempts(game, now, CountsAutoRounds)
    /\ game.current_auto_round <= game.max_auto_rounds
    /\ restarts = game.current_auto_round
    /\ restarts <= game.max_auto_rounds

\* an Automated game finished again after MaxAutoRounds
\* automatic new games, which is its limit, so that a further one is refused
C29_Witness ==
    /\ game.state = "Finished"
    /\ game.game_mode = "Automated"
    /\ game.max_auto_rounds = MaxAutoRounds
    /\ restarts = MaxAutoRounds
    /\ game.current_auto_round = MaxAutoRounds
    /\ process_auto_play_next_round(game, "host", now).err = "InvalidGameState"

\* the outcome of CommitChoice(commitment, salt) by `caller` in CommitPhase
CommitsAsStated(caller, commitment, salt, r) ==
    IF \E i \in 1..Len(game.players) : game.players[i].pubkey = caller
    THEN /\ r.err = "Ok"
         /\ Len(r.game.players) = Len(game.players)
         /\ \A i \in 1..Len(game.players) :
               IF game.players[i].pubkey = caller
               THEN r.game.players[i] =
                        [game.players[i] EXCEPT !.committed_choice = commitment,
                                                !.salt = salt]
               ELSE r.game.players[i] = game.players[i]
    ELSE r.err = "PlayerNotFound" /\ r.game = game

\* C30: during CommitPhase every CommitChoice of a roster member succeeds,
\* whether or not the member already holds a commitment, replaces that
\* player's stored commitment and salt with exactly the supplied values and
\* changes no other field of the roster; a caller who is not in the roster
\* fails with PlayerNotFound.
C30_Recommit ==
    game.state = "CommitPhase" =>
        \A caller \in Users, c \in AllCommits :
            CommitsAsStated(caller, c[1], c[2],
                            process_commit_choice(game, caller, c[1], c[2], now))

\* the host holds a commitment while another player holds none, and a second
\* CommitChoice of the host with another commitment and another salt takes
\* the place of the first
C30_Witness ==
    /\ game.state = "CommitPhase"
    /\ game.players[1].committed_choice # ZERO64
    /\ \E j \in 2..Len(game.players) : game.players[j].committed_choice = ZERO64
    /\ \E c \in AllCommits :
          /\ c[1] # ZERO64
          /\ c[1] # game.players[1].committed_choice
          /\ c[2] # game.players[1].salt
          /\ LET r == process_commit_choice(game, "host", c[1], c[2], now)
             IN  /\ r.err = "Ok"
                 /\ r.game.state = "CommitPhase"
                 /\ r.game.players[1].committed_choice = c[1]
                 /\ r.game.players[1].salt = c[2]

(***************************************************************************)
(* The tournament lobby: process_create_tournament and                     *)
(* process_join_tournament.  A handler returns the error, the record left  *)
(* in the tournament account and the value it moved into the account.      *)
(***************************************************************************)
MIN_TOURNAMENT_PLAYERS == 2
MAX_TOURNAMENT_PLAYERS == 32

SaturatingAdd(a, b) == IF a + b > U64_MAX THEN U64_MAX ELSE a + b

TResult(err, t, received) == [err |-> err, tourney |-> t, received |-> received]

\* `created` is the outcome of the create_account invocation
process_create_tournament(host, max_players, entry_fee, currency_mode, token_mint, created) ==
    IF max_players < MIN_TOURNAMENT_PLAYERS \/ max_players > MAX_TOURNAMENT_PLAYERS
    THEN TResult("InvalidParameter", NoTournament, 0)
    ELSE IF ~created THEN TResult("AccountCreationFailed", NoTournament, 0)
    ELSE IF currency_mode \notin {0, 1} THEN TResult("InvalidParameter", NoTournament, 0)
    ELSE TResult("Ok",
                 [host |-> host,
                  max_players |-> max_players,
                  entry_fee |-> entry_fee,
                  currency_mode |-> IF currency_mode = 0 THEN "SOL" ELSE "RPSToken",
                  players |-> <<>>,
                  prize_pool |-> 0,
                  is_started |-> FALSE,
                  token_mint |-> token_mint], 0)

IsRegistered(t, player) == \E i \in 1..Len(t.players) : t.players[i] = player

\* process_join_tournament without its check of the roster for the caller
join_tournament_twice(t, player, transferred) ==
    LET pays == t.entry_fee > 0 /\ t.currency_mode = "SOL"
        paid == [t EXCEPT !.prize_pool = SaturatingAdd(@, t.entry_fee)]
    IN  IF t.is_started THEN TResult("InvalidGameState", t, 0)
        ELSE IF Len(t.players) % (U8_MAX + 1) >= t.max_players THEN TResult("GameFull", t, 0)
        ELSE IF pays /\ ~transferred THEN TResult("TransferFailed", t, 0)
        ELSE IF pays
             THEN TResult("Ok", [paid EXCEPT !.players = Append(@, player)], t.entry_fee)
             ELSE TResult("Ok", [t EXCEPT !.players = Append(@, player)], 0)

\* `transferred` is the outcome of the transfer of the entry fee
process_join_tournament(t, player, transferred) ==
    LET pays == t.entry_fee > 0 /\ t.currency_mode = "SOL"
        paid == [t EXCEPT !.prize_pool = SaturatingAdd(@, t.entry_fee)]
    IN  IF t.is_started THEN TResult("InvalidGameState", t, 0)
        ELSE IF Len(t.players) % (U8_MAX + 1) >= t.max_players THEN TResult("GameFull", t, 0)
        ELSE IF IsRegistered(t, player) THEN TResult("PlayerAlreadyJoined", t, 0)
        ELSE IF pays /\ ~transferred THEN TResult("TransferFailed", t, 0)
        ELSE IF pays
             THEN TResult("Ok", [paid EXCEPT !.players = Append(@, player)], t.entry_fee)
             ELSE TResult("Ok", [t EXCEPT !.players = Append(@, player)], 0)

\* capacities below, at and above the two limits
Capacities ==
    {MIN_TOURNAMENT_PLAYERS - 1, MIN_TOURNAMENT_PLAYERS, MIN_TOURNAMENT_PLAYERS + 1,
     MAX_TOURNAMENT_PLAYERS, MAX_TOURNAMENT_PLAYERS + 1}

\* no fee, a small fee, and a fee of which the account can hold only one
TournamentFees == {0, 100, U64_MAX \div 2 + 1}

CurrencyModeBytes == {0, 1, 2}

\* create_account fails for an account that exists already
CreateTournament ==
    \E max_players \in Capacities, entry_fee \in TournamentFees,
       currency_mode \in CurrencyModeBytes, created \in BOOLEAN :
        LET r == process_create_tournament(Host, max_players, entry_fee,
                                           currency_mode, "None", created)
        IN  /\ created => tourney = NoTournament
            /\ tourney' = IF r.err = "Ok" THEN r.tourney ELSE tourney
            /\ UNCHANGED <<game, now, contributions, paid_out, claimed, claims,
                           rejoins, restarts, tourney_paid, losers>>

\* the balance of an account is a u64: a transfer that would take it beyond
\* U64_MAX does not succeed
JoinTournament(callers) ==
    \E player \in callers, transferred \in BOOLEAN :
        LET r == process_join_tournament(tourney, player, transferred)
        IN  /\ tourney # NoTournament
            /\ transferred => tourney_paid + tourney.entry_fee <= U64_MAX
            /\ tourney' = r.tourney
            /\ tourney_paid' = tourney_paid + r.received
            /\ UNCHANGED <<game, now, contributions, paid_out, claimed, claims,
                           rejoins, restarts, losers>>

InitTournament == InitWith({Config(3, 3, 1, 0, 0, "SOL", FALSE, 0)})

NextTournament ==
    \/ CreateTournament
    \/ JoinTournament(Users)

SpecTournament == InitTournament /\ [][NextTournament]_vars

CreatesAsStated(max_players, r) ==
    /\ r.err = "Ok" =>
          /\ max_players >= 2
          /\ max_players <= 32
          /\ r.tourney.players = <<>>
          /\ r.tourney.prize_pool = 0
    /\ (max_players < 2 \/ max_players > 32) => r.err = "InvalidParameter"

TournamentJoinAsStated(t, player, r) ==
    /\ (t.is_started \/ Len(t.players) >= t.max_players \/ IsRegistered(t, player)) =>
          /\ r.err # "Ok"
          /\ r.tourney = t
          /\ r.received = 0
    /\ r.err = "Ok" =>
          /\ r.tourney.players = Append(t.players, player)
          /\ r.received = (IF t.currency_mode = "SOL" THEN t.entry_fee ELSE 0)

Players4 == {"host", "p1", "p2", "p3"}

InitRedraw == InitWith({Config(3, 4, 1, 0, 0, "SOL", FALSE, t) : t \in 0..1})

NextRedraw ==
    \/ JoinGame({"p1", "p2", "p3"}, {NoAccounts}, {AllOk})
    \/ CommitChoice(Players4, RockCommit)
    \/ RevealChoice(Players4, {"Rock"})
    \/ ResolveTimeout
    \/ StartNewGameRound({"host", "outsider"})
    \/ AutoPlayNextRound({"host", "outsider"})
    \/ TickUpTo(MaxRedrawTime)

SpecRedraw == InitRedraw /\ [][NextRedraw]_vars

InPlay(g) == g.state \in {"WaitingForPlayers", "CommitPhase", "RevealPhase"}

\* C32: in every reachable state the roster size is at least 1 and at most
\* max_players, and in WaitingForPlayers, CommitPhase and RevealPhase it is
\* also at most the required player count, including after StartNewGameRound
\* or AutoPlayNextRound has drawn the required player count again.
C32_RosterBound ==
    /\ Len(game.players) >= 1
    /\ Len(game.players) <= game.max_players
    /\ InPlay(game) => Len(game.players) <= game.player_count

\* the part of C32 that does not depend on the required player count
C32_WithinStorage ==
    /\ Len(game.players) >= 1
    /\ Len(game.players) <= game.max_players

(***************************************************************************)
(* SpecIdentity: games for three or four players filled by joins and by    *)
(* bots added one, two or three at a time in one or several calls, cut     *)
(* down by the CommitPhase timeout, finished and started again.            *)
(***************************************************************************)
InitIdentity == InitWith({Config(3, 4, 1, 0, 0, "SOL", FALSE, t) : t \in 0..1})

NextIdentity ==
    \/ JoinGame(Players3, {NoAccounts}, {AllOk})
    \/ AddBotPlayersOf({"host"}, BotCounts)
    \/ CommitChoice(Players3, RockCommit)
    \/ RevealChoice(Players3, {"Rock"})
    \/ ResolveTimeout
    \/ StartNewGameRound({"host"})

SpecIdentity == InitIdentity /\ [][NextIdentity]_vars

\* C33: in every reachable state no two roster entries of a game have the
\* same identity, across any interleaving of JoinGame, AddBotPlayers (in one
\* or several calls), timeouts that drop players, and resets.
C33_DistinctIdentities ==
    \A i, j \in 1..Len(game.players) :
        game.players[i].pubkey = game.players[j].pubkey => i = j

\* a roster of the host, two bots added by two calls and a player who joined
\* after them
C33_Witness ==
    /\ Len(game.players) = 4
    /\ game.players[2].pubkey = BotPubkey(1, 0)
    /\ game.players[3].pubkey = BotPubkey(2, 0)
    /\ game.players[4].pubkey \in Players3

(***************************************************************************)
(* SpecCounter: three-player games of 1..MaxRounds rounds with a timeout   *)
(* of 0, whose rounds are closed by the last reveal or by ResolveTimeout   *)
(* and which are started again once finished.                              *)
(***************************************************************************)
InitCounter == InitWith({Config(3, 3, n, 0, 0, "SOL", FALSE, 0) : n \in 1..MaxRounds})

NextCounter ==
    \/ NextPlay
    \/ ResolveTimeout
    \/ StartNewGameRound({"host"})
    \/ AutoPlayNextRound({"p1"})

SpecCounter == InitCounter /\ [][NextCounter]_vars

\* what an operation may do to the round counter
MovesRoundAsStated(op, caller, r) ==
    /\ r.game.total_rounds = game.total_rounds
    /\ \/ r.game.current_round = game.current_round
       \/ /\ op \in {"RevealChoice", "ResolveTimeout"}
          /\ r.err = "Ok"
          /\ game.state = "RevealPhase"
          /\ r.game.state = "CommitPhase"
          /\ r.game.current_round = game.current_round + 1
       \/ /\ op \in {"StartNewGameRound", "AutoPlayNextRound"}
          /\ r.err = "Ok"
          /\ r.game.current_round = 1

\* C34: in every reachable state 1 <= current_round <= total_rounds, and
\* current_round only ever changes by increasing by one at a round close or
\* by being reset to 1 by StartNewGameRound or AutoPlayNextRound.
C34_RoundCounterBound ==
    /\ 1 <= game.current_round
    /\ game.current_round <= game.total_rounds
    /\ ForAllAttempts(game, now, MovesRoundAsStated)

\* a game of MaxRounds rounds finished in its last round, which a new game
\* takes back to round 1
C34_Witness ==
    /\ game.state = "Finished"
    /\ game.total_rounds = MaxRounds
    /\ game.current_round = MaxRounds
    /\ game.players[1].score > 0
    /\ process_start_new_game_round(game, "host", now).game.current_round = 1

\* C35: in every reachable state with state = CommitPhase or RevealPhase the
\* roster has at least min_players players, including when the game was
\* cancelled by a timeout with too few players and then started again with
\* StartNewGameRound or AutoPlayNextRound.
C35_MinimumPlayersInPlay ==
    game.state \in {"CommitPhase", "RevealPhase"} =>
        Len(game.players) >= game.min_players

\* the same before any new game has been started
C35_BeforeRestart ==
    restarts = 0 => C35_MinimumPlayersInPlay

(***************************************************************************)
(* SpecWinners: four-player games of one round with an entry fee of 100,   *)
(* in which the host plays Paper, p1 Rock, p2 Rock or Paper and p3         *)
(* Scissors, so that a game can finish with three different scores; the    *)
(* pot is then claimed, and players rejoin, in any order.                  *)
(***************************************************************************)
ScissorsCommit == {<<HmacSha512(1, ChoiceByte("Scissors")), 1>>}

InitWinners == InitWith({Config(4, 4, 1, 100, 1, "SOL", FALSE, 0)})

NextWinners ==
    \/ JoinGame({"p1", "p2", "p3"}, {NoAccounts}, {AllOk})
    \/ CommitChoice({"host", "p2"}, PaperCommit)
    \/ CommitChoice({"p1", "p2"}, RockCommit)
    \/ CommitChoice({"p3"}, ScissorsCommit)
    \/ RevealChoice(Players4, RPS)
    \/ ClaimWinningsUpTo(Players4, {NoAccounts}, {AllOk}, MaxPayoutClaims)
    \/ RejoinGame(Players4, {NoAccounts}, {AllOk})

SpecWinners == InitWinners /\ [][NextWinners]_vars

\* C36: a player whose score was strictly below the maximum score when the
\* game became Finished never has a ClaimWinnings succeed in that finished
\* game, for any interleaving of ClaimWinnings by other players and
\* RejoinGame by anyone.
C36_OnlyWinnersPaid == claimed \cap losers = {}

\* the same while nobody has rejoined
C36_WithoutRejoin == rejoins = 0 => C36_OnlyWinnersPaid

(***************************************************************************)
(* SpecClaim: three-player games of one round with an entry fee of 100 in  *)
(* which the host plays Paper.  Once the game is Finished the host calls   *)
(* nothing, while the other players, the fee collector and an outsider     *)
(* claim, rejoin, collect the fees and start new games in any order.       *)
(***************************************************************************)
Bystanders == {"host"}
OtherCallers == {"p1", "p2", "outsider"}

InitClaim == InitWith({Config(3, 3, 1, 100, 1, "SOL", FALSE, 0)})

NextClaim ==
    \/ JoinGame({"p1", "p2"}, {NoAccounts}, {AllOk})
    \/ CommitChoice({"host", "p1"}, PaperCommit)
    \/ CommitChoice({"p1", "p2"}, RockCommit)
    \/ RevealChoice(Players3, RPS)
    \/ ClaimWinningsUpTo(OtherCallers, {NoAccounts}, {AllOk}, MaxPayoutClaims)
    \/ RejoinGame(OtherCallers, {NoAccounts}, {AllOk})
    \/ CollectFees(OtherCallers \cup {FEE_COLLECTOR}, {NoAccounts}, {AllOk})
    \/ StartNewGameRound(OtherCallers)
    \/ AutoPlayNextRound(OtherCallers)

SpecClaim == InitClaim /\ [][NextClaim]_vars

\* w was tied at the maximum score when the game became Finished, has not
\* claimed, and the pot is positive
Entitled(w) ==
    /\ game.state = "Finished"
    /\ game.game_pot > 0
    /\ \E i \in 1..Len(game.players) : game.players[i].pubkey = w
    /\ w \notin losers
    /\ w \notin claimed

\* a ClaimWinnings of w on record g succeeds when its transfer does
CanClaim(g, w) == process_claim_winnings(g, w, NoAccounts, AllOk).err = "Ok"

\* C37: once a game is Finished with a positive pot, every player tied at
\* the maximum score who has not yet claimed can still have ClaimWinnings
\* succeed after any operation of another caller (ClaimWinnings, RejoinGame,
\* CollectFees, StartNewGameRound, AutoPlayNextRound): no step of SpecClaim,
\* in which such a player calls nothing, takes the claim away.
C37_ClaimStaysAvailable ==
    [][\A w \in Bystanders : Entitled(w) => CanClaim(game', w)]_vars

\* the same for every step but a successful StartNewGameRound or
\* AutoPlayNextRound
C37_UnlessNewGame ==
    [][\A w \in Bystanders :
          Entitled(w) /\ restarts' = restarts => CanClaim(game', w)]_vars

(***************************************************************************)
(* SpecScore: games of three and of four players over the largest number   *)
(* of rounds a record can hold, U8_MAX, without fee, in which the host     *)
(* plays Paper and everybody else Rock in every round.                     *)
(***************************************************************************)
InitScore == InitWith({Config(n, n, U8_MAX, 0, 1, "SOL", FALSE, 0) : n \in 3..4})

NextScore ==
    \/ JoinGame({"p1", "p2", "p3"}, {NoAccounts}, {AllOk})
    \/ CommitChoice({"host"}, PaperCommit)
    \/ CommitChoice({"p1", "p2", "p3"}, RockCommit)
    \/ RevealChoice(Players4, {"Rock", "Paper"})

SpecScore == InitScore /\ [][NextScore]_vars

\* the points a round resolution adds to the scores of `players`, counted
\* without a limit
RECURSIVE RoundWins(_, _, _)
RoundWins(players, i, j) ==
    IF j > Len(players) THEN 0
    ELSE (IF j # i /\ PairOutcome(players[i].choice, players[j].choice) = "i"
          THEN 1 ELSE 0) + RoundWins(players, i, j + 1)

\* the record after the reveal that closes the round holds, for every
\* player, the score before it plus the points of the round
NoScoreWraps(caller, choice, r) ==
    LET i0 == IndexOf(game, caller)
        shown == [game.players EXCEPT ![i0].choice = choice]
    IN  (r.err = "Ok" /\ r.game.state # "RevealPhase") =>
            \A i \in 1..Len(game.players) :
                /\ game.players[i].score + RoundWins(shown, i, 1) <= U8_MAX
                /\ r.game.players[i].score =
                       game.players[i].score + RoundWins(shown, i, 1)

\* C38: for every total_rounds from 1 to 255 and every roster of 3 or 4
\* players, a player's accumulated score never exceeds what its 8-bit
\* unsigned field can hold (255), so that no round resolution overflows or
\* wraps a score.
C38_ScoreRange ==
    game.state = "RevealPhase" =>
        \A caller \in Players4, choice \in RPS :
            NoScoreWraps(caller, choice,
                         process_reveal_choice(game, caller, choice, now))

\* the same in the rounds in which even a player who has beaten three others
\* in every round cannot have passed U8_MAX
C38_EarlyRounds == game.current_round <= U8_MAX \div 3 => C38_ScoreRange

\* C39: in every reachable state game_pot + fee_collected is at most the
\* value held in the game's custody, that is the entry fees transferred in
\* by callers minus everything transferred out (winnings, collected fees, and
\* fees forwarded to a fee-collector account at create, join or rejoin);
\* bots and fees forwarded at once never make the ledger exceed the custody
\* balance.
C39_Solvency ==
    game.game_pot + game.fee_collected <= contributions - paid_out

====
